---- MODULE Spec2Model ----
(***************************************************************************)
(* SolvencyProof: the liabilities commitment (Merkle builder, inclusion    *)
(* verifier), the solvency prover pipeline over the on-disk artifact set,   *)
(* the submission adapter and the on-chain registry, the Yellow session     *)
(* service and the full-workflow request of the API server.                 *)
(***************************************************************************)
EXTENDS Integers, Sequences, FiniteSets, TLC

VARIABLES
    liabilitiesCsv,   \* data/liabilities.csv: <<>> (absent) or <<rows>>
    epochFile,        \* data/epoch.json: <<>> (absent) or <<epoch_id>>
    builder,          \* the liabilities builder run: position, tree, epoch read
    builderOut,       \* how the last finished builder run ended
    rootFile,         \* data/output/liabilities_root.json
    totalFile,        \* data/output/liabilities_total.json
    inclusionFiles,   \* data/output/inclusion_proofs/inclusion_<userId>.json
    verifyOut,        \* outcome of the last verify-inclusion run
    reservesFile,     \* data/output/reserves_snapshot.json
    inputFile,        \* circuits/build/input.json
    witnessFile,      \* circuits/build/witness.wtns
    proofFile,        \* data/output/proof.json
    publicFile,       \* data/output/public.json
    artifactFile,     \* data/output/solvency_proof.json
    clock,            \* Math.floor(Date.now() / 1000)
    prover,           \* the prover runs: position and locals of each process
    lastProverOut,    \* how the most recently finished prover run ended
    artifactLog,      \* what the run that last wrote solvency_proof.json did
    adapter,          \* the submission adapter run: position and locals
    adapterOut,       \* how the last finished adapter run ended
    submissionFile,   \* data/output/submission_result.json
    verifier,         \* SolvencyProofRegistry.verifier
    alwaysValid,      \* MockVerifier.alwaysValid
    proofs,           \* SolvencyProofRegistry.proofs
    epochIds,         \* SolvencyProofRegistry.epochIds
    events,           \* the SolvencyProved events emitted
    blockTime,        \* block.timestamp of the next block
    lastTx,           \* the last submitProof transaction and its outcome
    sessions,         \* data/yellow_sessions/<id>.json, by session id
    history,          \* data/yellow_sessions/<id>_history.jsonl, by session id
    lastYellow,       \* the last call of the session service and its outcome
    workflow,         \* the POST /api/workflow/full request: position, steps
    workflowOut,      \* the response of the last POST /api/workflow/full
    packed,           \* two leaf records and the bytes hashLeaf packs them to
    calls,            \* calls of the session service waiting in `await signState`
    client            \* the YellowClient of the page: socket, requests, timers

merkleVars == <<liabilitiesCsv, epochFile, builder, builderOut, rootFile,
                totalFile, inclusionFiles, verifyOut>>

proverVars == <<reservesFile, inputFile, witnessFile, proofFile, publicFile,
                artifactFile, clock, prover, lastProverOut,
                artifactLog>>

adapterVars == <<adapter, adapterOut, submissionFile>>

registryVars == <<verifier, alwaysValid, proofs, epochIds, events, blockTime, lastTx>>

yellowVars == <<sessions, history, lastYellow>>

apiVars == <<workflow, workflowOut>>

clientVars == <<packed, calls, client>>

vars == <<merkleVars, proverVars, adapterVars, registryVars,
                   yellowVars, clientVars, apiVars>>

-----------------------------------------------------------------------------
(* Bounds of the model.                                                     *)

MaxRecords == 5

(* Files: absent, or present with one content.                              *)
Absent == <<>>
File(c) == <<c>>
Exists(f) == f # <<>>
Content(f) == f[1]

Users == {"alice", "bob"}
Balances == {0, 12}

RECURSIVE SeqsUpTo(_, _)
SeqsUpTo(S, n) ==
    IF n = 0 THEN {<<>>}
    ELSE LET shorter == SeqsUpTo(S, n - 1)
         IN  shorter \cup {Append(s, x) : s \in {t \in shorter : Len(t) = n - 1}, x \in S}

-----------------------------------------------------------------------------
(* Digests.  keccak256 is taken to be collision-free: a digest is the       *)
(* prefix-free serialisation of the pre-image it was computed from, a        *)
(* sequence of naturals.  Digests are compared as the hex strings are, by a  *)
(* strict total order (lexicographic).                                       *)

utf8(userId) == CASE userId = "alice" -> 1
                  [] userId = "bob"   -> 2
                  [] userId = "carol" -> 3
                  [] OTHER            -> 4

RECURSIVE HexLess(_, _)
HexLess(a, b) ==
    IF b = <<>> THEN FALSE
    ELSE IF a = <<>> THEN TRUE
    ELSE IF a[1] # b[1] THEN a[1] < b[1]
    ELSE HexLess(Tail(a), Tail(b))

\* keccak256(encodePacked(["string","uint256"], [userId, balance]))
hashLeaf(userId, balance) == <<0, utf8(userId), balance>>

\* keccak256(encodePacked(["bytes32","bytes32"], [x, y]))
keccakPair(x, y) == <<1>> \o x \o y

hashPairUnsorted(a, b) == keccakPair(a, b)

hashPair(a, b) == IF HexLess(a, b) THEN keccakPair(a, b) ELSE keccakPair(b, a)

-----------------------------------------------------------------------------
(* buildMerkleTree / generateProof / verifyProof.  Indices are 0-based as in *)
(* the source; sequences are 1-based.                                        *)

\* A running total kept in a 4-bit accumulator, which wraps at 16.
RECURSIVE SumBalancesWrapped(_)
SumBalancesWrapped(entries) ==
    IF entries = <<>> THEN 0
    ELSE (entries[1].balance + SumBalancesWrapped(Tail(entries))) % 16

RECURSIVE SumBalances(_)
SumBalances(entries) ==
    IF entries = <<>> THEN 0
    ELSE entries[1].balance + SumBalances(Tail(entries))

\* The mutation of the inner loop: an unpaired last node is dropped.
NextLayerDropsUnpaired(currentLayer) ==
    [k \in 1 .. (Len(currentLayer) \div 2) |->
        hashPair(currentLayer[2 * k - 1], currentLayer[2 * k])]

NextLayer(currentLayer) ==
    [k \in 1 .. ((Len(currentLayer) + 1) \div 2) |->
        IF 2 * k <= Len(currentLayer)
        THEN hashPair(currentLayer[2 * k - 1], currentLayer[2 * k])
        ELSE currentLayer[2 * k - 1]]

RECURSIVE BuildLayers(_)
BuildLayers(layers) ==
    LET currentLayer == layers[Len(layers)]
    IN  IF Len(currentLayer) > 1
        THEN BuildLayers(Append(layers, NextLayer(currentLayer)))
        ELSE layers

\* A build that accepts zero entries.
buildMerkleTreeNeverThrows(entries) == FALSE

\* if (entries.length === 0) throw new Error("Cannot build Merkle tree with
\* zero entries").
buildMerkleTreeThrows(entries) == Len(entries) = 0

\* The tree buildMerkleTree returns when it does not throw.  root is
\* currentLayer[0], which is undefined (<<>> here) for an empty layer.
buildMerkleTree(entries) ==
    LET leaves == [i \in 1 .. Len(entries) |->
                     [userId  |-> entries[i].userId,
                      balance |-> entries[i].balance,
                      hash    |-> hashLeaf(entries[i].userId, entries[i].balance),
                      index   |-> i - 1]]
        layers == BuildLayers(<<[i \in 1 .. Len(entries) |-> leaves[i].hash]>>)
    IN  [root   |-> IF layers[Len(layers)] = <<>> THEN <<>>
                    ELSE layers[Len(layers)][1],
         leaves |-> leaves,
         layers |-> layers,
         total  |-> SumBalances(entries)]

RECURSIVE ProofFrom(_, _, _)
ProofFrom(layers, i, idx) ==
    IF i > Len(layers) - 1 THEN <<>>
    ELSE LET layer      == layers[i]
             isRight    == idx % 2 = 1
             siblingIdx == IF isRight THEN idx - 1 ELSE idx + 1
             here       == IF siblingIdx < Len(layer)
                           THEN <<layer[siblingIdx + 1]>> ELSE <<>>
         IN  here \o ProofFrom(layers, i + 1, idx \div 2)

\* The mutation of generateProof: the siblings in root-to-leaf order.
generateProofRootward(t, leafIndex) ==
    LET proof == ProofFrom(t.layers, 1, leafIndex)
    IN  [k \in 1 .. Len(proof) |-> proof[Len(proof) + 1 - k]]

generateProof(t, leafIndex) == ProofFrom(t.layers, 1, leafIndex)

RECURSIVE FoldProof(_, _)
FoldProof(computedHash, proof) ==
    IF proof = <<>> THEN computedHash
    ELSE FoldProof(hashPair(computedHash, proof[1]), Tail(proof))

verifyProofNoRoot(leafHash, proof, root, leafIndex) == TRUE

\* The mutation of verifyProof: a leaf with an empty path must be leaf 0.
verifyProofChecksIndex(leafHash, proof, root, leafIndex) ==
    FoldProof(leafHash, proof) = root /\ (proof = <<>> => leafIndex = 0)

verifyProof(leafHash, proof, root, leafIndex) ==
    FoldProof(leafHash, proof) = root

-----------------------------------------------------------------------------
(* Strings of text, as sequences of characters: the digits 0..9, Minus for   *)
(* "-", Dot for "." and EpochWord for the text "epoch_".  toString and       *)
(* BigInt as JavaScript defines them on these strings.                       *)

Minus == 10
Dot == 11
EpochWord == 12

RECURSIVE toString(_)
toString(n) ==
    IF n < 0 THEN <<Minus>> \o toString(0 - n)
    ELSE IF n < 10 THEN <<n>>
    ELSE toString(n \div 10) \o <<n % 10>>

RECURSIVE DigitsValue(_, _)
DigitsValue(s, acc) ==
    IF s = <<>> THEN acc ELSE DigitsValue(Tail(s), 10 * acc + s[1])

AllDigits(s) == \A i \in 1 .. Len(s) : s[i] \in 0 .. 9

\* BigInt(s): <<>> when it throws SyntaxError, else <<value>>.
BigInt(s) ==
    IF s = <<>> THEN <<0>>
    ELSE IF AllDigits(s) THEN <<DigitsValue(s, 0)>>
    ELSE IF s[1] = Minus /\ Len(s) > 1 /\ AllDigits(Tail(s))
         THEN <<0 - DigitsValue(Tail(s), 0)>>
    ELSE <<>>

-----------------------------------------------------------------------------
(* The liabilities builder (main of liabilities-builder.ts).                 *)

\* The rows a liabilities CSV is drawn from: two rows share an identifier.
Rows == {[user_id |-> "alice", balance |-> toString(0)],
         [user_id |-> "alice", balance |-> toString(12)],
         [user_id |-> "bob", balance |-> toString(12)]}
AllCsvs == SeqsUpTo(Rows, MaxRecords)

\* Rows whose balance column is not a non-negative decimal integer: "-5",
\* "12.5" and the empty field of a line such as `bob,`.
MaxBadRecords == 3
BadRows == {[user_id |-> "alice", balance |-> <<Minus, 5>>],
            [user_id |-> "bob", balance |-> <<1, 2, Dot, 5>>],
            [user_id |-> "bob", balance |-> <<>>]}
BuilderCsvs == SeqsUpTo(Rows \cup BadRows, MaxBadRecords)

\* "epoch_001", and the epoch ids an operator writes to data/epoch.json.
DefaultEpochId == <<EpochWord, 0, 0, 1>>
EpochIds == {DefaultEpochId, <<2>>}

NoTree == <<>>
IdleBuilder == [pc |-> "idle", tree |-> NoTree, epoch_id |-> DefaultEpochId]

\* rows.map(row => ({userId, balance: BigInt(row.balance)})): <<>> when a
\* BigInt throws, else <<entries>>.
EntriesOf(rows) ==
    IF \E i \in 1 .. Len(rows) : BigInt(rows[i].balance) = <<>> THEN <<>>
    ELSE <<[i \in 1 .. Len(rows) |->
              [userId |-> rows[i].user_id, balance |-> BigInt(rows[i].balance)[1]]]>>

\* encodePacked of a uint256 throws outside 0 .. 2^256-1.
Encodable(entries) == \A i \in 1 .. Len(entries) : entries[i].balance >= 0

\* The entries the run builds from: <<>> when it exits with an error before
\* its first write (no CSV, a BigInt that throws, zero entries, a balance
\* encodePacked rejects), else <<entries>>.
BuilderEntries ==
    IF ~Exists(liabilitiesCsv) THEN <<>>
    ELSE LET parsed == EntriesOf(Content(liabilitiesCsv))
         IN  IF parsed = <<>> THEN <<>>
             ELSE IF buildMerkleTreeThrows(parsed[1]) THEN <<>>
             ELSE IF ~Encodable(parsed[1]) THEN <<>>
             ELSE parsed

EpochRead == IF Exists(epochFile) THEN Content(epochFile) ELSE DefaultEpochId

BuilderFail ==
    /\ builder.pc = "idle"
    /\ BuilderEntries = <<>>
    /\ builderOut' = "error"
    /\ UNCHANGED <<liabilitiesCsv, epochFile, builder, rootFile, totalFile,
                   inclusionFiles, verifyOut,
                   proverVars, adapterVars, registryVars,
                   yellowVars, clientVars, apiVars>>

BuilderWriteRoot ==
    /\ builder.pc = "idle"
    /\ BuilderEntries # <<>>
    /\ builder' = [pc       |-> "wroteRoot",
                   tree     |-> <<buildMerkleTree(BuilderEntries[1])>>,
                   epoch_id |-> EpochRead]
    /\ rootFile' = File([liabilities_root |-> builder'.tree[1].root,
                         epoch_id         |-> EpochRead,
                         leaf_count       |-> Len(builder'.tree[1].leaves)])
    /\ UNCHANGED <<liabilitiesCsv, epochFile, builderOut, totalFile,
                   inclusionFiles, verifyOut,
                   proverVars, adapterVars, registryVars,
                   yellowVars, clientVars, apiVars>>

BuilderWriteTotal ==
    /\ builder.pc = "wroteRoot"
    /\ totalFile' = File([liabilities_total |-> toString(builder.tree[1].total),
                          epoch_id          |-> builder.epoch_id])
    /\ builder' = [builder EXCEPT !.pc = "wroteTotal"]
    /\ UNCHANGED <<liabilitiesCsv, epochFile, builderOut, rootFile,
                   inclusionFiles, verifyOut,
                   proverVars, adapterVars, registryVars,
                   yellowVars, clientVars, apiVars>>

InclusionProofOf(t, leaf) ==
    [userId   |-> leaf.userId,
     balance  |-> toString(leaf.balance),
     leafHash |-> leaf.hash,
     proof    |-> generateProof(t, leaf.index),
     index    |-> leaf.index,
     root     |-> t.root]

\* The loop over tree.leaves: a later leaf of the same userId overwrites the
\* file of an earlier one.
RECURSIVE WriteProofs(_, _, _)
WriteProofs(files, t, i) ==
    IF i > Len(t.leaves) THEN files
    ELSE WriteProofs([files EXCEPT ![t.leaves[i].userId] =
                          File(InclusionProofOf(t, t.leaves[i]))], t, i + 1)

BuilderWriteProofs ==
    /\ builder.pc = "wroteTotal"
    /\ inclusionFiles' = WriteProofs(inclusionFiles, builder.tree[1], 1)
    /\ builder' = [builder EXCEPT !.pc = "idle"]
    /\ builderOut' = "ok"
    /\ UNCHANGED <<liabilitiesCsv, epochFile, rootFile, totalFile, verifyOut,
                   proverVars, adapterVars, registryVars,
                   yellowVars, clientVars, apiVars>>

-----------------------------------------------------------------------------
(* The inclusion verifier (main of verify-inclusion.ts).                     *)

\* Lines 47-73 on the parsed proof file p: the process's outcome.
InclusionCheck(p) ==
    LET parsed == BigInt(p.balance)
    IN  IF parsed = <<>> THEN "error"
        ELSE IF parsed[1] < 0 THEN "error"
        ELSE IF hashLeaf(p.userId, parsed[1]) # p.leafHash THEN "leafMismatch"
        ELSE IF verifyProof(p.leafHash, p.proof, p.root, p.index) THEN "verified"
        ELSE "invalid"

NoVerify == [userId |-> "", tamper |-> "none", base |-> "none", result |-> "none"]

\* verify-inclusion <userId>: the file the builder left for that user.
VerifyInclusion(userId) ==
    /\ verifyOut' = [userId |-> userId,
                     tamper |-> "none",
                     base   |-> "none",
                     result |-> IF Exists(inclusionFiles[userId])
                                THEN InclusionCheck(Content(inclusionFiles[userId]))
                                ELSE "notfound"]
    /\ UNCHANGED <<liabilitiesCsv, epochFile, builder, builderOut, rootFile,
                   totalFile, inclusionFiles, proverVars, adapterVars, registryVars,
                   yellowVars, clientVars, apiVars>>

\* Values a tampered proof file may carry.
TamperUsers == Users \cup {"carol"}
TamperBalances == {<<>>, <<0>>, <<1>>, <<1, 2>>, <<0, 1, 2>>, <<2, 1>>}

RECURSIVE PathDigests(_, _)
PathDigests(computedHash, proof) ==
    IF proof = <<>> THEN {computedHash}
    ELSE {computedHash, proof[1]}
         \cup PathDigests(hashPair(computedHash, proof[1]), Tail(proof))

TamperDigests(p) ==
    {hashLeaf("carol", 12), <<2>>} \cup PathDigests(p.leafHash, p.proof) \cup {p.root}

TamperOut(userId, kind, p, q) ==
    verifyOut' = [userId |-> userId, tamper |-> kind,
                  base   |-> InclusionCheck(p),
                  result |-> InclusionCheck(q)]

\* verify-inclusion <file.json> on a copy of a user's proof file with exactly
\* one of balance, userId, one sibling digest or the root changed to a
\* different value.
VerifyTampered(userId) ==
    /\ Exists(inclusionFiles[userId])
    /\ LET p == Content(inclusionFiles[userId])
       IN  \/ \E s \in TamperBalances :
                 /\ BigInt(s) # BigInt(p.balance)
                 /\ TamperOut(userId, "balance", p, [p EXCEPT !.balance = s])
           \/ \E u \in TamperUsers \ {p.userId} :
                 TamperOut(userId, "userId", p, [p EXCEPT !.userId = u])
           \/ \E i \in 1 .. Len(p.proof) :
                 \E d \in TamperDigests(p) \ {p.proof[i]} :
                    TamperOut(userId, "sibling", p, [p EXCEPT !.proof[i] = d])
           \/ \E d \in TamperDigests(p) \ {p.root} :
                 TamperOut(userId, "root", p, [p EXCEPT !.root = d])
    /\ UNCHANGED <<liabilitiesCsv, epochFile, builder, builderOut, rootFile,
                   totalFile, inclusionFiles, proverVars, adapterVars, registryVars,
                   yellowVars, clientVars, apiVars>>

-----------------------------------------------------------------------------
(* The solvency circuit (circuits/solvency.circom).  The BN254 scalar field  *)
(* and the 252-bit comparator are scaled down together: the prime lies       *)
(* between 2^(ComparatorBits+1) and 2^(ComparatorBits+2), as the real one    *)
(* lies between 2^253 and 2^254.                                             *)

ComparatorBits == 5
FieldPrime == 97

RECURSIVE Pow2(_)
Pow2(n) == IF n = 0 THEN 1 ELSE 2 * Pow2(n - 1)

\* A decimal string as the field element the witness calculator loads.
FieldOf(s) == BigInt(s)[1] % FieldPrime

\* circomlib LessThan(n): Num2Bits(n+1) of in[0] + 2^n - in[1]; the output is
\* 1 - bit n.  <<>> when the value does not fit n+1 bits (the witness
\* calculator stops on the failing constraint).
LessThan(n, in0, in1) ==
    LET v == (in0 + Pow2(n) + FieldPrime - in1) % FieldPrime
    IN  IF v >= Pow2(n + 1) THEN <<>>
        ELSE IF v >= Pow2(n) THEN <<0>> ELSE <<1>>

\* circomlib GreaterEqThan(n): LessThan(n) on (in[1], in[0] + 1).
GreaterEqThan(n, in0, in1) == LessThan(n, in1, (in0 + 1) % FieldPrime)

\* Solvency(): the witness for an input.json, <<>> when a constraint fails.
\* The witness carries the public signals in circuit order (output first) and
\* the private input.
Solvency(input) ==
    LET liabilitiesRoot == FieldOf(input.liabilitiesRoot)
        reservesTotal == FieldOf(input.reservesTotal)
        epochId == FieldOf(input.epochId)
        liabilitiesTotal == FieldOf(input.liabilitiesTotal)
        gte == GreaterEqThan(ComparatorBits, reservesTotal, liabilitiesTotal)
    IN  IF gte = <<>> \/ gte # <<1>> THEN <<>>
        ELSE <<[public |-> <<gte[1], liabilitiesRoot, reservesTotal, epochId>>,
                liabilitiesTotal |-> liabilitiesTotal]>>

\* l.28-31: dummy1 <== liabilitiesRoot * epochId; dummy2 <== dummy1 * 0, as
\* constraints on an assignment w of the circuit's signals.
DummyConstraints(w) ==
    /\ w.dummy1 = (w.liabilitiesRoot * w.epochId) % FieldPrime
    /\ w.dummy2 = (w.dummy1 * 0) % FieldPrime

\* The assignment of every signal the witness calculator computes for a
\* witness of Solvency.
SolvencySignals(witness) ==
    [isSolvent |-> witness.public[1],
     liabilitiesRoot |-> witness.public[2],
     reservesTotal |-> witness.public[3],
     epochId |-> witness.public[4],
     liabilitiesTotal |-> witness.liabilitiesTotal,
     dummy1 |-> (witness.public[2] * witness.public[4]) % FieldPrime,
     dummy2 |-> 0]

\* l.18-31: every constraint of the circuit holds on the assignment w.
SolvencyConstraints(w) ==
    /\ GreaterEqThan(ComparatorBits, w.reservesTotal, w.liabilitiesTotal)
           = <<w.isSolvent>>
    /\ w.isSolvent = 1
    /\ DummyConstraints(w)

\* snarkjs groth16 prove: proof.json holds the points pi_a (3 coordinates),
\* pi_b (3 pairs) and pi_c (3 coordinates); a coordinate is a pair of its
\* place and the statement the proof attests to (the blinding randomness is
\* left out).  public.json lists the public signals as decimal strings.
Coord(place, statement) == <<place, statement>>

Groth16Prove(witness) ==
    LET st == witness.public
    IN  [pi_a |-> <<Coord(1, st), Coord(2, st), Coord(0, <<>>)>>,
         pi_b |-> <<<<Coord(3, st), Coord(4, st)>>, <<Coord(5, st), Coord(6, st)>>,
                    <<Coord(0, <<>>), Coord(0, <<>>)>>>>,
         pi_c |-> <<Coord(7, st), Coord(8, st), Coord(0, <<>>)>>]

PublicJson(witness) == [i \in 1 .. Len(witness.public) |-> toString(witness.public[i])]

\* The statement a proof attests to.
ProofStatement(proof) == proof.pi_a[1][2]

\* snarkjs groth16 verify on public.json and proof.json.
Groth16Verify(publicSignals, proof) ==
    /\ \A i \in 1 .. Len(publicSignals) : BigInt(publicSignals[i]) # <<>>
    /\ ProofStatement(proof) = [i \in 1 .. Len(publicSignals) |-> FieldOf(publicSignals[i])]

\* snarkjs zkey export soliditycalldata on public.json and proof.json: the
\* affine coordinates, each pair of pi_b swapped, and the signals as numbers.
ExportCalldata(publicSignals, proof) ==
    [pA |-> <<proof.pi_a[1], proof.pi_a[2]>>,
     pB |-> <<<<proof.pi_b[1][2], proof.pi_b[1][1]>>,
              <<proof.pi_b[2][2], proof.pi_b[2][1]>>>>,
     pC |-> <<proof.pi_c[1], proof.pi_c[2]>>,
     pubSignals |-> [i \in 1 .. Len(publicSignals) |-> FieldOf(publicSignals[i])]]

-----------------------------------------------------------------------------
(* The solvency prover (backend/src/solvency-prover.ts, generateProof).      *)

Provers == {"cli", "api"}
MaxClock == 2

\* The 256-bit digest as the integer BigInt(liabilitiesRoot) yields, scaled to
\* ComparatorBits + 4 bits.
RECURSIVE RootValue(_)
RootValue(d) ==
    IF d = <<>> THEN 0
    ELSE (7 * RootValue(SubSeq(d, 1, Len(d) - 1)) + d[Len(d)] + 1)
             % Pow2(ComparatorBits + 4)

NoRun == [result |-> "none", reservesTotal |-> <<>>, liabilitiesTotal |-> <<>>,
          wrote |-> {}]

IdleProver == [pc |-> "idle", liabilitiesRoot |-> <<>>, liabilitiesTotal |-> <<>>,
               reservesTotal |-> <<>>, epochId |-> <<>>, rootEpoch |-> <<>>,
               reservesEpoch |-> <<>>, proof |-> <<>>, publicSignals |-> <<>>,
               generated |-> <<>>, verified |-> <<>>, wrote |-> {}]

\* The run of process p ends with the given result.
ProverEnds(p, result, reservesTotal, liabilitiesTotal) ==
    LET out == [result |-> result, reservesTotal |-> reservesTotal,
                liabilitiesTotal |-> liabilitiesTotal, wrote |-> prover[p].wrote]
    IN  /\ prover' = [prover EXCEPT ![p] = IdleProver]
        /\ lastProverOut' = out

ProverFilesUnchanged ==
    UNCHANGED <<inputFile, witnessFile, proofFile, publicFile, artifactFile>>

OthersUnchangedByProver ==
    UNCHANGED <<merkleVars, reservesFile, adapterVars, registryVars,
                   yellowVars, clientVars, apiVars>>

\* l.45-47: liabilities_root.json or liabilities_total.json is missing.
ProverNoLiabilities(p) ==
    /\ prover[p].pc = "idle"
    /\ ~Exists(rootFile) \/ ~Exists(totalFile)
    /\ prover' = [prover EXCEPT ![p] = IdleProver]
    /\ lastProverOut' = [NoRun EXCEPT !.result = "missing"]
    /\ ProverFilesUnchanged /\ OthersUnchangedByProver
    /\ UNCHANGED <<clock, artifactLog>>

\* l.45-48: both files exist; liabilities_root.json is read.
ProverReadRoot(p) ==
    /\ prover[p].pc = "idle"
    /\ Exists(rootFile) /\ Exists(totalFile)
    /\ prover' = [prover EXCEPT ![p] =
           [IdleProver EXCEPT !.pc = "readRoot",
                              !.liabilitiesRoot = Content(rootFile).liabilities_root,
                              !.rootEpoch = Content(rootFile).epoch_id]]
    /\ ProverFilesUnchanged /\ OthersUnchangedByProver
    /\ UNCHANGED <<clock, lastProverOut, artifactLog>>

\* The check for reserves_snapshot.json made after input.json is written.
ProverNoReservesLate(p) ==
    /\ prover[p].pc = "readRoot"
    /\ ~Exists(reservesFile)
    /\ inputFile' = File([liabilitiesRoot |-> toString(RootValue(prover[p].liabilitiesRoot)),
                          reservesTotal |-> <<>>,
                          epochId |-> toString(clock),
                          liabilitiesTotal |-> Content(totalFile).liabilities_total])
    /\ prover' = [prover EXCEPT ![p] = IdleProver]
    /\ lastProverOut' = [result |-> "missing", reservesTotal |-> <<>>,
                         liabilitiesTotal |-> Content(totalFile).liabilities_total,
                         wrote |-> {"input"}]
    /\ UNCHANGED <<witnessFile, proofFile, publicFile, artifactFile>>
    /\ OthersUnchangedByProver
    /\ UNCHANGED <<clock, artifactLog>>

\* l.49-61: liabilities_total.json is read; reserves_snapshot.json is missing.
ProverNoReserves(p) ==
    /\ prover[p].pc = "readRoot"
    /\ ~Exists(reservesFile)
    /\ ProverEnds(p, "missing", <<>>, Content(totalFile).liabilities_total)
    /\ ProverFilesUnchanged /\ OthersUnchangedByProver
    /\ UNCHANGED <<clock, artifactLog>>

\* The comparison on the decimal strings themselves.
InsolventAsText(reservesTotal, liabilitiesTotal) ==
    HexLess(reservesTotal, liabilitiesTotal)

\* l.72-75: reservesBN < liabilitiesBN on the loaded decimal strings.
Insolvent(reservesTotal, liabilitiesTotal) ==
    BigInt(reservesTotal)[1] < BigInt(liabilitiesTotal)[1]

\* l.49-79: the totals are read and the precheck throws.
ProverInsolvent(p) ==
    /\ prover[p].pc = "readRoot"
    /\ Exists(reservesFile)
    /\ Insolvent(Content(reservesFile).reserves_total_wei,
                 Content(totalFile).liabilities_total)
    /\ ProverEnds(p, "insolvent", Content(reservesFile).reserves_total_wei,
                  Content(totalFile).liabilities_total)
    /\ ProverFilesUnchanged /\ OthersUnchangedByProver
    /\ UNCHANGED <<clock, artifactLog>>

\* The totals are read and input.json is written, without the precheck.
ProverWriteInputUnchecked(p) ==
    /\ prover[p].pc = "readRoot"
    /\ Exists(reservesFile)
    /\ LET liabilitiesTotal == Content(totalFile).liabilities_total
           reservesTotal == Content(reservesFile).reserves_total_wei
           epochId == toString(clock)
       IN  /\ prover' = [prover EXCEPT ![p].pc = "wroteInput",
                                       ![p].liabilitiesTotal = liabilitiesTotal,
                                       ![p].reservesTotal = reservesTotal,
                                       ![p].reservesEpoch = Content(reservesFile).epoch_id,
                                       ![p].epochId = epochId,
                                       ![p].wrote = @ \cup {"input"}]
           /\ inputFile' = File([liabilitiesRoot |-> toString(RootValue(prover[p].liabilitiesRoot)),
                                 reservesTotal |-> reservesTotal,
                                 epochId |-> epochId,
                                 liabilitiesTotal |-> liabilitiesTotal])
    /\ UNCHANGED <<witnessFile, proofFile, publicFile, artifactFile>>
    /\ OthersUnchangedByProver
    /\ UNCHANGED <<clock, lastProverOut, artifactLog>>

\* l.49-95: the totals are read, the precheck passes, input.json is written.
ProverWriteInput(p) ==
    /\ prover[p].pc = "readRoot"
    /\ Exists(reservesFile)
    /\ ~Insolvent(Content(reservesFile).reserves_total_wei,
                  Content(totalFile).liabilities_total)
    /\ LET liabilitiesTotal == Content(totalFile).liabilities_total
           reservesTotal == Content(reservesFile).reserves_total_wei
           epochId == toString(clock)
       IN  /\ prover' = [prover EXCEPT ![p].pc = "wroteInput",
                                       ![p].liabilitiesTotal = liabilitiesTotal,
                                       ![p].reservesTotal = reservesTotal,
                                       ![p].reservesEpoch = Content(reservesFile).epoch_id,
                                       ![p].epochId = epochId,
                                       ![p].wrote = @ \cup {"input"}]
           /\ inputFile' = File([liabilitiesRoot |-> toString(RootValue(prover[p].liabilitiesRoot)),
                                 reservesTotal |-> reservesTotal,
                                 epochId |-> epochId,
                                 liabilitiesTotal |-> liabilitiesTotal])
    /\ UNCHANGED <<witnessFile, proofFile, publicFile, artifactFile>>
    /\ OthersUnchangedByProver
    /\ UNCHANGED <<clock, lastProverOut, artifactLog>>

\* l.98-105: generate_witness.js runs the circuit on input.json as it is on
\* disk now and writes witness.wtns.
ProverWitness(p) ==
    /\ prover[p].pc = "wroteInput"
    /\ Solvency(Content(inputFile)) # <<>>
    /\ witnessFile' = File(Solvency(Content(inputFile))[1])
    /\ prover' = [prover EXCEPT ![p].pc = "witnessed",
                                ![p].wrote = @ \cup {"witness"}]
    /\ UNCHANGED <<inputFile, proofFile, publicFile, artifactFile>>
    /\ OthersUnchangedByProver
    /\ UNCHANGED <<clock, lastProverOut, artifactLog>>

\* l.102-105: the witness calculator exits non-zero (a constraint fails, or
\* the wasm is missing or broken); execSync throws.
ProverWitnessFails(p) ==
    /\ prover[p].pc = "wroteInput"
    /\ ProverEnds(p, "witnessFailed", prover[p].reservesTotal, prover[p].liabilitiesTotal)
    /\ ProverFilesUnchanged /\ OthersUnchangedByProver
    /\ UNCHANGED <<clock, artifactLog>>

\* l.108-116: snarkjs groth16 prove reads witness.wtns as it is on disk now and
\* writes proof.json and public.json.
ProverProve(p) ==
    /\ prover[p].pc = "witnessed"
    /\ LET witness == Content(witnessFile)
       IN  /\ proofFile' = File(Groth16Prove(witness))
           /\ publicFile' = File(PublicJson(witness))
           /\ prover' = [prover EXCEPT ![p].pc = "proved",
                             ![p].generated = <<Groth16Prove(witness), PublicJson(witness)>>,
                             ![p].wrote = @ \cup {"proof", "public"}]
    /\ UNCHANGED <<inputFile, witnessFile, artifactFile>>
    /\ OthersUnchangedByProver
    /\ UNCHANGED <<clock, lastProverOut, artifactLog>>

\* l.113-116: the proving backend exits non-zero; execSync throws.
ProverProveFails(p) ==
    /\ prover[p].pc = "witnessed"
    /\ ProverEnds(p, "proveFailed", prover[p].reservesTotal, prover[p].liabilitiesTotal)
    /\ ProverFilesUnchanged /\ OthersUnchangedByProver
    /\ UNCHANGED <<clock, artifactLog>>

\* l.119-120: proof.json and public.json are read into memory.
ProverReadProof(p) ==
    /\ prover[p].pc = "proved"
    /\ prover' = [prover EXCEPT ![p].pc = "loaded",
                                ![p].proof = Content(proofFile),
                                ![p].publicSignals = Content(publicFile)]
    /\ ProverFilesUnchanged /\ OthersUnchangedByProver
    /\ UNCHANGED <<clock, lastProverOut, artifactLog>>

\* l.129-134: snarkjs groth16 verify accepts public.json and proof.json as
\* they are on disk now.
ProverVerify(p) ==
    /\ prover[p].pc = "loaded"
    /\ Groth16Verify(Content(publicFile), Content(proofFile))
    /\ prover' = [prover EXCEPT ![p].pc = "verified",
                                ![p].verified = <<Content(proofFile), Content(publicFile)>>]
    /\ ProverFilesUnchanged /\ OthersUnchangedByProver
    /\ UNCHANGED <<clock, lastProverOut, artifactLog>>

\* l.135-137: the verifier exits non-zero (the proof is rejected, or the
\* verification key is missing or of another setup); the run throws.
ProverVerifyFails(p) ==
    /\ prover[p].pc = "loaded"
    /\ ProverEnds(p, "verifyFailed", prover[p].reservesTotal, prover[p].liabilitiesTotal)
    /\ ProverFilesUnchanged /\ OthersUnchangedByProver
    /\ UNCHANGED <<clock, artifactLog>>

\* l.141-163: the calldata is exported from public.json and proof.json as they
\* are on disk now; solvency_proof.json is written from the proof and signals
\* in memory and that calldata.
ProverWriteArtifact(p) ==
    /\ prover[p].pc = "verified"
    /\ LET result == [proof |-> prover[p].proof,
                      publicSignals |-> prover[p].publicSignals,
                      calldata |-> ExportCalldata(Content(publicFile), Content(proofFile))]
       IN  /\ artifactFile' = File(result)
           /\ artifactLog' = <<[result |-> result,
                                generated |-> prover[p].generated,
                                verified |-> prover[p].verified,
                                reservesTotal |-> prover[p].reservesTotal,
                                liabilitiesTotal |-> prover[p].liabilitiesTotal,
                                rootEpoch |-> prover[p].rootEpoch,
                                reservesEpoch |-> prover[p].reservesEpoch]>>
    /\ prover' = [prover EXCEPT ![p] = IdleProver]
    /\ lastProverOut' = [result |-> "ok", reservesTotal |-> prover[p].reservesTotal,
                         liabilitiesTotal |-> prover[p].liabilitiesTotal,
                         wrote |-> prover[p].wrote \cup {"artifact"}]
    /\ UNCHANGED <<inputFile, witnessFile, proofFile, publicFile>>
    /\ OthersUnchangedByProver
    /\ UNCHANGED clock

\* The caller's timeout (api: execSync timeout 120000) or an operator's signal
\* ends the process wherever it is.
ProverKilled(p) ==
    /\ prover[p].pc # "idle"
    /\ ProverEnds(p, "killed", prover[p].reservesTotal, prover[p].liabilitiesTotal)
    /\ ProverFilesUnchanged /\ OthersUnchangedByProver
    /\ UNCHANGED <<clock, artifactLog>>

\* A second passes.
Tick ==
    /\ clock < MaxClock
    /\ clock' = clock + 1
    /\ UNCHANGED <<merkleVars, reservesFile, inputFile, witnessFile, proofFile,
                   publicFile, artifactFile, prover, lastProverOut,
                   artifactLog, adapterVars, registryVars,
                   yellowVars, clientVars, apiVars>>

\* The values generateProof prints with console.log on a successful run
\* (l.53-82 and l.165-175), in order: root, liabilities total, reserves
\* total, surplus, then the summary.
ProverStdout(liabilitiesTotal, reservesTotal, publicSignals) ==
    <<publicSignals[2], liabilitiesTotal, reservesTotal,
      toString(BigInt(reservesTotal)[1] - BigInt(liabilitiesTotal)[1]),
      publicSignals[4], publicSignals[2], reservesTotal, liabilitiesTotal,
      publicSignals[1]>>

\* res.json of POST /api/proof/generate: data holds four keys the artifact
\* does not have (undefined, dropped by JSON), output is the script's stdout.
ProofGenerateResponse(artifact, stdout) ==
    [success |-> TRUE, data |-> <<>>, output |-> stdout]

ProverStep(p) ==
    \/ ProverNoLiabilities(p)
    \/ ProverReadRoot(p)
    \/ ProverNoReserves(p)
    \/ ProverInsolvent(p)
    \/ ProverWriteInput(p)
    \/ ProverWitness(p)
    \/ ProverWitnessFails(p)
    \/ ProverProve(p)
    \/ ProverProveFails(p)
    \/ ProverReadProof(p)
    \/ ProverVerify(p)
    \/ ProverVerifyFails(p)
    \/ ProverWriteArtifact(p)
    \/ ProverKilled(p)

-----------------------------------------------------------------------------
(* The on-chain registry (SolvencyProofRegistry.sol) and the verifier        *)
(* contracts it can point to.                                                *)

\* constructor: owner = msg.sender.
owner == "owner"
Senders == {owner, "other"}

\* The contracts a registry can point to: the MockVerifier of the test
\* deployment and the Groth16Verifier snarkjs exports for the circuit.
Verifiers == {"MockVerifier", "Groth16Verifier"}

\* verifyProof as each verifier contract declares it.
VerifierSignals == [MockVerifier |-> 3, Groth16Verifier |-> 4]

MaxBlockTime == 3

ZeroProof == [epochId |-> 0, liabilitiesRoot |-> 0, reservesTotal |-> 0,
              timestamp |-> 0, submitter |-> "0x0", verified |-> FALSE]

\* mapping(bytes32 => SolvencyProof): an unwritten key reads as zero.
getProof(epochId) == IF epochId \in DOMAIN proofs THEN proofs[epochId] ELSE ZeroProof

getEpochCount == Len(epochIds)

\* The mutation of getLatestEpoch: the first epoch id instead of the last.
getLatestEpochFirst == IF Len(epochIds) > 0 THEN <<epochIds[1]>> ELSE <<>>

\* getLatestEpoch: <<>> when require(epochIds.length > 0) reverts, else <<id>>.
getLatestEpoch == IF Len(epochIds) > 0 THEN <<epochIds[Len(epochIds)]>> ELSE <<>>

isEpochVerified(epochId) == getProof(epochId).verified

\* verifier.verifyProof(_pA, _pB, _pC, pubSignals) through IGroth16Verifier
\* (uint256[3]): "revert" when the contract has no function of that selector.
VerifierCall(pubSignals) ==
    IF VerifierSignals[verifier] # Len(pubSignals) THEN "revert"
    ELSE IF alwaysValid THEN "true" ELSE "false"

\* l.66-70: the public signals submitProof builds.
RegistryPubSignals(epochId, liabilitiesRoot, reservesTotal) ==
    <<liabilitiesRoot, reservesTotal, epochId>>

NoTx == [fn |-> "none", sender |-> "0x0", epochId |-> 0, liabilitiesRoot |-> 0,
         reservesTotal |-> 0, newVerifier |-> "0x0", handed |-> <<>>,
         verdict |-> "none", status |-> "none"]

\* A transaction that reverts: storage and logs are as before it.
Reverts(tx) ==
    /\ lastTx' = [tx EXCEPT !.status = "reverted"]
    /\ UNCHANGED <<verifier, proofs, epochIds, events>>

\* l.75-92: the record is stored, the epoch id appended, the event emitted.
Stores(tx) ==
    /\ proofs' = [e \in DOMAIN proofs \cup {tx.epochId} |->
           IF e = tx.epochId
           THEN [epochId |-> tx.epochId, liabilitiesRoot |-> tx.liabilitiesRoot,
                 reservesTotal |-> tx.reservesTotal, timestamp |-> blockTime,
                 submitter |-> tx.sender, verified |-> TRUE]
           ELSE proofs[e]]
    /\ epochIds' = Append(epochIds, tx.epochId)
    /\ events' = Append(events, [epochId |-> tx.epochId,
           liabilitiesRoot |-> tx.liabilitiesRoot, reservesTotal |-> tx.reservesTotal,
           timestamp |-> blockTime, submitter |-> tx.sender])
    /\ lastTx' = tx
    /\ UNCHANGED verifier

SubmitTx(sender, epochId, liabilitiesRoot, reservesTotal) ==
    LET pubSignals == RegistryPubSignals(epochId, liabilitiesRoot, reservesTotal)
    IN  [fn |-> "submitProof", sender |-> sender, epochId |-> epochId,
         liabilitiesRoot |-> liabilitiesRoot, reservesTotal |-> reservesTotal,
         newVerifier |-> "0x0",
         handed |-> <<pubSignals>>, verdict |-> VerifierCall(pubSignals),
         status |-> "success"]

\* submitProof without require(valid, "Invalid proof").
submitProofUnverified(sender, epochId, liabilitiesRoot, reservesTotal) ==
    LET tx == SubmitTx(sender, epochId, liabilitiesRoot, reservesTotal)
    IN  IF getProof(epochId).timestamp # 0
        THEN Reverts([tx EXCEPT !.handed = <<>>, !.verdict = "none"])
        ELSE IF tx.verdict = "revert" THEN Reverts(tx)
        ELSE Stores(tx)

\* submitProof without require(proofs[epochId].timestamp == 0, ...).
submitProofOverwrites(sender, epochId, liabilitiesRoot, reservesTotal) ==
    LET tx == SubmitTx(sender, epochId, liabilitiesRoot, reservesTotal)
    IN  IF tx.verdict # "true" THEN Reverts(tx) ELSE Stores(tx)

\* l.55-93: submitProof.
submitProof(sender, epochId, liabilitiesRoot, reservesTotal) ==
    LET tx == SubmitTx(sender, epochId, liabilitiesRoot, reservesTotal)
    IN  IF getProof(epochId).timestamp # 0
        THEN Reverts([tx EXCEPT !.handed = <<>>, !.verdict = "none"])
        ELSE IF tx.verdict # "true" THEN Reverts(tx)
        ELSE Stores(tx)

OthersUnchangedByRegistry ==
    UNCHANGED <<merkleVars, proverVars, adapterVars, yellowVars, clientVars, apiVars>>

\* Any account sends submitProof.
RegistrySubmitProof(sender, epochId, liabilitiesRoot, reservesTotal) ==
    /\ submitProof(sender, epochId, liabilitiesRoot, reservesTotal)
    /\ UNCHANGED <<alwaysValid, blockTime>>
    /\ OthersUnchangedByRegistry

\* setVerifier without the onlyOwner modifier.
RegistrySetVerifierByAnyone(sender, newVerifier) ==
    /\ verifier' = newVerifier
    /\ lastTx' = [NoTx EXCEPT !.fn = "setVerifier", !.sender = sender,
                              !.newVerifier = newVerifier, !.status = "success"]
    /\ UNCHANGED <<proofs, epochIds, events, alwaysValid, blockTime>>
    /\ OthersUnchangedByRegistry

\* l.39-53: setVerifier, onlyOwner.
RegistrySetVerifier(sender, newVerifier) ==
    /\ LET tx == [NoTx EXCEPT !.fn = "setVerifier", !.sender = sender,
                              !.newVerifier = newVerifier, !.status = "success"]
       IN  IF sender # owner THEN Reverts(tx)
           ELSE /\ verifier' = newVerifier
                /\ lastTx' = tx
                /\ UNCHANGED <<proofs, epochIds, events>>
    /\ UNCHANGED <<alwaysValid, blockTime>>
    /\ OthersUnchangedByRegistry

\* MockVerifier.setAlwaysValid, open to any account.
MockSetAlwaysValid(valid) ==
    /\ alwaysValid' = valid
    /\ UNCHANGED <<verifier, proofs, epochIds, events, blockTime, lastTx>>
    /\ OthersUnchangedByRegistry

\* The next block is later.
NextBlock ==
    /\ blockTime < MaxBlockTime
    /\ blockTime' = blockTime + 1
    /\ UNCHANGED <<verifier, alwaysValid, proofs, epochIds, events, lastTx>>
    /\ OthersUnchangedByRegistry

-----------------------------------------------------------------------------
(* The submission adapter (backend/src/submit-proof.ts).                     *)

\* The functions the registry contract dispatches, by name and parameter
\* count, and the one REGISTRY_ABI makes the adapter call (l.19).
RegistryFunctions == {<<"submitProof", 6>>, <<"setVerifier", 1>>, <<"getProof", 1>>,
                      <<"getEpochCount", 0>>, <<"getLatestEpoch", 0>>,
                      <<"isEpochVerified", 1>>}
AdapterSubmitFunction == <<"submitProof", 7>>

IdleAdapter == [pc |-> "idle", epochId |-> 0, liabilitiesRoot |-> 0,
                reservesTotal |-> 0, pubSignals |-> <<>>, afterRun |-> "none"]

NoAdapterRun == [result |-> "none", pubSignals |-> <<>>, afterRun |-> "none"]

OthersUnchangedByAdapter ==
    UNCHANGED <<merkleVars, proverVars, yellowVars, clientVars, apiVars>>

\* l.38-46: solvency_proof.json is missing (throws), or liabilities_root.json
\* is (readFileSync throws).
AdapterNoProof ==
    /\ adapter.pc = "idle"
    /\ ~Exists(artifactFile) \/ ~Exists(rootFile)
    /\ adapterOut' = [NoAdapterRun EXCEPT !.result = "notFound"]
    /\ UNCHANGED <<adapter, submissionFile, registryVars>>
    /\ OthersUnchangedByAdapter

\* l.38-92: the artifact and the root are loaded and the arguments prepared.
AdapterLoad ==
    /\ adapter.pc = "idle"
    /\ Exists(artifactFile) /\ Exists(rootFile)
    /\ LET calldata == Content(artifactFile).calldata
       IN  adapter' = [pc |-> "loaded",
                       epochId |-> calldata.pubSignals[4],
                       liabilitiesRoot |-> RootValue(Content(rootFile).liabilities_root),
                       reservesTotal |-> calldata.pubSignals[3],
                       pubSignals |-> calldata.pubSignals,
                       afterRun |-> lastProverOut.result]
    /\ UNCHANGED <<adapterOut, submissionFile, registryVars>>
    /\ OthersUnchangedByAdapter

\* The transaction is sent and submission_result.json is written whatever the
\* receipt says.
AdapterSubmitSavesAlways ==
    /\ adapter.pc = "loaded"
    /\ IF AdapterSubmitFunction \in RegistryFunctions
       THEN submitProof(owner, adapter.epochId, adapter.liabilitiesRoot,
                        adapter.reservesTotal)
       ELSE Reverts([NoTx EXCEPT !.fn = "submitProof", !.sender = owner,
                                 !.epochId = adapter.epochId,
                                 !.liabilitiesRoot = adapter.liabilitiesRoot,
                                 !.reservesTotal = adapter.reservesTotal])
    /\ submissionFile' = File([epochId |-> adapter.epochId,
                               liabilitiesRoot |-> adapter.liabilitiesRoot,
                               reservesTotal |-> adapter.reservesTotal,
                               verified |-> adapter.epochId \in DOMAIN proofs'])
    /\ adapterOut' = [result |-> "submitted", pubSignals |-> adapter.pubSignals,
                      afterRun |-> adapter.afterRun]
    /\ adapter' = IdleAdapter
    /\ UNCHANGED <<alwaysValid, blockTime>>
    /\ OthersUnchangedByAdapter

\* l.110-165: the transaction is sent; submission_result.json is written
\* after a receipt of status success.  A call of a function the contract does
\* not have reverts.
AdapterSubmit ==
    /\ adapter.pc = "loaded"
    /\ IF AdapterSubmitFunction \in RegistryFunctions
       THEN submitProof(owner, adapter.epochId, adapter.liabilitiesRoot,
                        adapter.reservesTotal)
       ELSE Reverts([NoTx EXCEPT !.fn = "submitProof", !.sender = owner,
                                 !.epochId = adapter.epochId,
                                 !.liabilitiesRoot = adapter.liabilitiesRoot,
                                 !.reservesTotal = adapter.reservesTotal])
    /\ IF lastTx'.status = "success"
       THEN /\ submissionFile' = File([epochId |-> adapter.epochId,
                                       liabilitiesRoot |-> adapter.liabilitiesRoot,
                                       reservesTotal |-> adapter.reservesTotal,
                                       verified |-> proofs'[adapter.epochId].verified])
            /\ adapterOut' = [result |-> "submitted", pubSignals |-> adapter.pubSignals,
                              afterRun |-> adapter.afterRun]
       ELSE /\ UNCHANGED submissionFile
            /\ adapterOut' = [result |-> "failed", pubSignals |-> adapter.pubSignals,
                              afterRun |-> adapter.afterRun]
    /\ adapter' = IdleAdapter
    /\ UNCHANGED <<alwaysValid, blockTime>>
    /\ OthersUnchangedByAdapter

-----------------------------------------------------------------------------
(* The Yellow session service (YellowNetworkService of yellow-network.ts).   *)
(* A method runs to completion within one turn of the server's event loop:   *)
(* all it awaits is a local signature.  A JavaScript object with string      *)
(* values is the sequence of its own properties in insertion order.          *)

MaxNonce == 3

\* No call of the service yet; no request in progress; no response yet.
NoYellow == [op |-> "none", sessionId |-> "", arg |-> <<>>, result |-> "none"]

IdleWorkflow == [pc |-> "idle", steps |-> <<>>]

NoPacked == [pairs |-> <<>>, bytes |-> <<>>]

NoResponse == [status |-> 0, body |-> "none", steps |-> <<>>, submission |-> <<>>]
SessionIds == {"s1"}
ChannelIds == {"c1", "c2"}

Keys(obj) == {obj[i].key : i \in 1 .. Len(obj)}

\* obj[k] as an own property: <<>> when there is none, else <<value>>.
Get(obj, k) ==
    IF k \in Keys(obj)
    THEN <<obj[CHOOSE i \in 1 .. Len(obj) : obj[i].key = k].value>>
    ELSE <<>>

\* CreateDataProperty, as JSON.parse and the object spread define a property:
\* an existing key keeps its place, a new key goes last.
DefineOwn(obj, k, v) ==
    IF k \in Keys(obj)
    THEN [i \in 1 .. Len(obj) |->
             IF obj[i].key = k THEN [key |-> k, value |-> v] ELSE obj[i]]
    ELSE Append(obj, [key |-> k, value |-> v])

\* The assignment obj[k] = v on an object literal: the key __proto__ names
\* the prototype setter, which ignores a string and defines no property.
Assign(obj, k, v) == IF k = "__proto__" THEN obj ELSE DefineOwn(obj, k, v)

\* allocations of a new session: participants.forEach(p => allocations[p] = "0").
RECURSIVE InitialAllocations(_, _)
InitialAllocations(participants, obj) ==
    IF participants = <<>> THEN obj
    ELSE InitialAllocations(Tail(participants),
                            Assign(obj, participants[1], toString(0)))

\* The mutation of the merge: the update replaces the allocations.
SpreadReplaces(obj, src) == src

\* { ...obj, ...src }
RECURSIVE Spread(_, _)
Spread(obj, src) ==
    IF src = <<>> THEN obj
    ELSE Spread(DefineOwn(obj, src[1].key, src[1].value), Tail(src))

\* keccak256 of the packed channel id, JSON.stringify(allocations), nonce and
\* turn number: injective, hence the tuple itself.
calculateStateHash(session) ==
    <<session.channelId, session.allocations, session.nonce, session.turnNum>>

\* The operator's signature over a state hash.
signState(stateHash) == <<"signed", stateHash>>

loadSession(sessionId) == sessions[sessionId]

\* One line of <id>_history.jsonl.
HistoryEntry(session) ==
    [nonce |-> session.nonce, stateHash |-> session.stateHash,
     allocations |-> session.allocations, status |-> session.status]

saveSession(session) ==
    /\ sessions' = [sessions EXCEPT ![session.id] = File(session)]
    /\ history' = [history EXCEPT ![session.id] = Append(@, HistoryEntry(session))]

\* What a call leaves alone besides the session store and liabilities.csv.
OthersUnchangedByYellow ==
    UNCHANGED <<epochFile, builder, builderOut, rootFile, totalFile,
                inclusionFiles, verifyOut, proverVars, adapterVars,
                registryVars, apiVars, clientVars>>

YellowCall(op, sessionId, arg, result) ==
    lastYellow' = [op |-> op, sessionId |-> sessionId, arg |-> arg, result |-> result]

Signed(session) ==
    LET hashed == [session EXCEPT !.stateHash = calculateStateHash(session)]
    IN  [hashed EXCEPT !.signature = signState(hashed.stateHash)]

\* createSession: the new id (a timestamp and a random suffix) is fresh.
createSession(sessionId, participants, channelId) ==
    /\ ~Exists(sessions[sessionId])
    /\ saveSession(Signed([id |-> sessionId, channelId |-> channelId,
                           participants |-> participants,
                           allocations |-> InitialAllocations(participants, <<>>),
                           nonce |-> 0, status |-> "open", stateHash |-> <<>>,
                           signature |-> <<>>, turnNum |-> 0]))
    /\ YellowCall("createSession", sessionId, participants, "ok")
    /\ UNCHANGED liabilitiesCsv
    /\ OthersUnchangedByYellow

Includes(seq, x) == \E i \in 1 .. Len(seq) : seq[i] = x

\* The mutation of the guards of updateAllocations: the status is not checked.
updateAllocationsThrowsUnlessKnown(sessionId, newAllocations) ==
    IF ~Exists(loadSession(sessionId)) THEN "Session not found"
    ELSE IF \E k \in Keys(newAllocations) :
                ~Includes(Content(loadSession(sessionId)).participants, k)
         THEN "Unknown participant"
    ELSE "ok"

\* The mutation of the participant check: only the first key is checked.
updateAllocationsThrowsOnFirstKey(sessionId, newAllocations) ==
    IF ~Exists(loadSession(sessionId)) THEN "Session not found"
    ELSE IF Content(loadSession(sessionId)).status # "open" THEN "Session is not open"
    ELSE IF newAllocations # <<>> /\
            ~Includes(Content(loadSession(sessionId)).participants, newAllocations[1].key)
         THEN "Unknown participant"
    ELSE "ok"

\* The error updateAllocations throws before it changes anything, else "ok".
updateAllocationsThrows(sessionId, newAllocations) ==
    IF ~Exists(loadSession(sessionId)) THEN "Session not found"
    ELSE IF Content(loadSession(sessionId)).status # "open" THEN "Session is not open"
    ELSE IF \E k \in Keys(newAllocations) :
                ~Includes(Content(loadSession(sessionId)).participants, k)
         THEN "Unknown participant"
    ELSE "ok"

\* l.275-279: the new state of the loaded copy.
UpdatedSession(session, newAllocations) ==
    [session EXCEPT !.allocations = Spread(session.allocations, newAllocations),
                    !.nonce = session.nonce + 1,
                    !.turnNum = session.turnNum + 1]

updateAllocations(sessionId, newAllocations) ==
    LET thrown == updateAllocationsThrows(sessionId, newAllocations)
    IN  /\ YellowCall("updateAllocations", sessionId, newAllocations, thrown)
        /\ IF thrown = "ok"
           THEN LET session == Content(loadSession(sessionId))
                IN  /\ session.nonce < MaxNonce
                    /\ saveSession(Signed(UpdatedSession(session, newAllocations)))
           ELSE UNCHANGED <<sessions, history>>
        /\ UNCHANGED liabilitiesCsv
        /\ OthersUnchangedByYellow

\* The mutation of closeSession: the final state keeps the nonce.
ClosedSessionSameNonce(session) == [session EXCEPT !.status = "closed"]

\* The final state of a session: closed, with the next nonce.
ClosedSession(session) ==
    [session EXCEPT !.status = "closed", !.nonce = session.nonce + 1]

closeSessionThrows(sessionId) ==
    IF ~Exists(loadSession(sessionId)) THEN "Session not found"
    ELSE IF Content(loadSession(sessionId)).status = "closed"
         THEN "Session already closed"
    ELSE "ok"

closeSession(sessionId) ==
    LET thrown == closeSessionThrows(sessionId)
    IN  /\ YellowCall("closeSession", sessionId, <<>>, thrown)
        /\ IF thrown = "ok"
           THEN LET session == Content(loadSession(sessionId))
                IN  /\ session.nonce < MaxNonce
                    /\ saveSession(Signed(ClosedSession(session)))
           ELSE UNCHANGED <<sessions, history>>
        /\ UNCHANGED liabilitiesCsv
        /\ OthersUnchangedByYellow

\* "user_id,balance\n" and one line `${userId},${balance}` per own property.
ExportRows(allocations) ==
    [i \in 1 .. Len(allocations) |->
        [user_id |-> allocations[i].key, balance |-> allocations[i].value]]

exportToLiabilities(sessionId) ==
    /\ IF Exists(loadSession(sessionId))
       THEN /\ liabilitiesCsv' =
                   File(ExportRows(Content(loadSession(sessionId)).allocations))
            /\ YellowCall("exportToLiabilities", sessionId, <<>>, "ok")
       ELSE /\ UNCHANGED liabilitiesCsv
            /\ YellowCall("exportToLiabilities", sessionId, <<>>, "Session not found")
    /\ UNCHANGED <<sessions, history>>
    /\ OthersUnchangedByYellow

-----------------------------------------------------------------------------
(* The same methods with their await.  updateAllocations and closeSession    *)
(* load the session, check it and compute the new state, then wait in        *)
(* `await this.signState(...)`; the save follows when the call is resumed.   *)
(* Another call that was started meanwhile has loaded the session as the     *)
(* file then held it.                                                        *)

MaxCalls == 2

\* What a waiting or resumed call leaves alone.
OthersUnchangedByCall ==
    UNCHANGED <<merkleVars, proverVars, adapterVars, registryVars, apiVars,
                packed, client>>

\* l.255-285: updateAllocations up to its await.
updateAllocationsAwait(sessionId, newAllocations) ==
    LET thrown == updateAllocationsThrows(sessionId, newAllocations)
    IN  /\ IF thrown = "ok"
           THEN LET session == Content(loadSession(sessionId))
                IN  /\ Len(history[sessionId]) + Len(calls) <= MaxNonce
                    /\ Len(calls) < MaxCalls
                    /\ calls' = Append(calls,
                           [op |-> "updateAllocations", sessionId |-> sessionId,
                            arg |-> newAllocations,
                            session |-> Signed(UpdatedSession(session, newAllocations))])
                    /\ UNCHANGED lastYellow
           ELSE /\ YellowCall("updateAllocations", sessionId, newAllocations, thrown)
                /\ UNCHANGED calls
        /\ UNCHANGED <<sessions, history>>
        /\ OthersUnchangedByCall

\* l.303-322: closeSession up to its await.
closeSessionAwait(sessionId) ==
    LET thrown == closeSessionThrows(sessionId)
    IN  /\ IF thrown = "ok"
           THEN LET session == Content(loadSession(sessionId))
                IN  /\ Len(history[sessionId]) + Len(calls) <= MaxNonce
                    /\ Len(calls) < MaxCalls
                    /\ calls' = Append(calls,
                           [op |-> "closeSession", sessionId |-> sessionId,
                            arg |-> <<>>,
                            session |-> Signed(ClosedSession(session))])
                    /\ UNCHANGED lastYellow
           ELSE /\ YellowCall("closeSession", sessionId, <<>>, thrown)
                /\ UNCHANGED calls
        /\ UNCHANGED <<sessions, history>>
        /\ OthersUnchangedByCall

\* l.286-297 and l.323-336: call number i is resumed, saves its state and
\* returns it.
ResumeCall(i) ==
    /\ i \in 1 .. Len(calls)
    /\ saveSession(calls[i].session)
    /\ YellowCall(calls[i].op, calls[i].sessionId, calls[i].arg, "ok")
    /\ calls' = [k \in 1 .. Len(calls) - 1 |-> IF k < i THEN calls[k] ELSE calls[k + 1]]
    /\ OthersUnchangedByCall

-----------------------------------------------------------------------------
(* YellowClient (app/lib/yellow.ts): requests over a WebSocket, each with a  *)
(* promise that the response of the same id or a 30-second timer settles.    *)
(* A request id is the text `${n}`; an inbound id is a JSON value, a pair of *)
(* its type and its text.  settled lists the calls of resolve and reject     *)
(* that were made, in order, with the request they belong to.                *)

MaxRequests == 2

\* l.19-25: the fields of a new YellowClient; no request was made.
NewClient == [ws |-> "null", messageId |-> 0, pendingRequests |-> {},
              timers |-> {}, outbound |-> <<>>, settled |-> <<>>]

\* The requests made so far: those sent and those refused.
SendCalls ==
    Len(client.outbound)
        + Cardinality({i \in 1 .. Len(client.settled) :
                           client.settled[i].by = "notConnected"})

OthersUnchangedByClient ==
    UNCHANGED <<merkleVars, proverVars, adapterVars, registryVars, yellowVars,
                apiVars, packed, calls>>

\* l.39-44: connect() of a client without a live socket.
Connect ==
    /\ client.ws \in {"null", "closed"}
    /\ client' = [client EXCEPT !.ws = "connecting"]
    /\ OthersUnchangedByClient

\* l.45-49: the socket opens.
OnOpen ==
    /\ client.ws = "connecting"
    /\ client' = [client EXCEPT !.ws = "open"]
    /\ OthersUnchangedByClient

\* l.51-59: the socket closes or fails; the pending requests stay.
OnClose ==
    /\ client.ws \in {"connecting", "open"}
    /\ client' = [client EXCEPT !.ws = "closed"]
    /\ OthersUnchangedByClient

\* l.157-162: disconnect().
Disconnect ==
    /\ client.ws # "null"
    /\ client' = [client EXCEPT !.ws = "null"]
    /\ OthersUnchangedByClient

\* The messages a server sends: without an id, or with an id that is a string
\* or a number, and with an error or without.
InboundIds ==
    {<<>>} \cup {<<<<type, toString(n)>>>> : type \in {"string", "number"},
                                            n \in 1 .. MaxRequests}
InboundMessages == [id : InboundIds, error : BOOLEAN]

\* Map.has and Map.delete for a key that is a JSON value: a string key is
\* found by the string of the same text only.
HasPending(c, id) == id[1] = "string" /\ id[2] \in c.pendingRequests

\* The mutation of handleMessage: the entry stays in the map.
handleMessageKeepsPending(c, data) ==
    IF data.id # <<>> /\ HasPending(c, data.id[1])
    THEN [c EXCEPT !.settled = Append(@, [id |-> data.id[1][2],
                                         by |-> IF data.error THEN "reject"
                                                ELSE "resolve"])]
    ELSE c

\* l.76-87.
handleMessage(c, data) ==
    IF data.id # <<>> /\ HasPending(c, data.id[1])
    THEN [c EXCEPT !.pendingRequests = @ \ {data.id[1][2]},
                   !.settled = Append(@, [id |-> data.id[1][2],
                                         by |-> IF data.error THEN "reject"
                                                ELSE "resolve"])]
    ELSE c

\* l.61-69: a message arrives on the open socket.
OnMessage(data) ==
    /\ client.ws = "open"
    /\ client' = handleMessage(client, data)
    /\ OthersUnchangedByClient

\* l.89-110: send().
Send ==
    /\ SendCalls < MaxRequests
    /\ IF client.ws # "open"
       THEN client' = [client EXCEPT !.settled =
                           Append(@, [id |-> <<>>, by |-> "notConnected"])]
       ELSE LET id == toString(client.messageId + 1)
            IN  client' = [client EXCEPT !.messageId = @ + 1,
                                         !.pendingRequests = @ \cup {id},
                                         !.outbound = Append(@, id),
                                         !.timers = @ \cup {id}]
    /\ OthersUnchangedByClient

\* l.103-108: the timer of request id fires.
Timeout(id) ==
    /\ id \in client.timers
    /\ client' = IF id \in client.pendingRequests
                 THEN [client EXCEPT !.timers = @ \ {id},
                                     !.pendingRequests = @ \ {id},
                                     !.settled = Append(@, [id |-> id, by |-> "timeout"])]
                 ELSE [client EXCEPT !.timers = @ \ {id}]
    /\ OthersUnchangedByClient

-----------------------------------------------------------------------------
(* POST /api/workflow/full of the API server: four scripts run as child      *)
(* processes by execSync, which returns when the child has exited and        *)
(* throws when its exit code is not 0 or its timeout has passed.             *)

\* The mutation of execSync: a failed child does not throw.
execSyncNeverThrows(exitCode) == FALSE

execSyncThrows(exitCode) == exitCode # 0

\* main().catch(... process.exit(1)) of the builder.
BuilderExit == IF builderOut = "ok" THEN 0 ELSE 1

\* generateProof().then(() => process.exit(0)).catch(... process.exit(1)).
ProverExit == IF lastProverOut.result = "ok" THEN 0 ELSE 1

\* submitProof().then(() => process.exit(0)).catch(... process.exit(1)).
AdapterExit == IF adapterOut.result = "submitted" THEN 0 ELSE 1

\* catch: res.status(500).json({error: "Workflow failed", ...}).
WorkflowFails ==
    /\ workflow' = IdleWorkflow
    /\ workflowOut' = [NoResponse EXCEPT !.status = 500, !.body = "Workflow failed"]

\* The request arrives: step 1 is announced and the builder spawned.
WorkflowRequest ==
    /\ workflow.pc = "idle"
    /\ builder.pc = "idle"
    /\ workflow' = [pc |-> "build", steps |-> <<"Building liabilities...">>]
    /\ workflowOut' = NoResponse
    /\ builderOut' = "none"
    /\ UNCHANGED <<liabilitiesCsv, epochFile, builder, rootFile, totalFile,
                   inclusionFiles, verifyOut, proverVars, adapterVars,
                   registryVars, yellowVars, clientVars>>

\* The builder has exited: step 2 is announced, or the request fails.
WorkflowBuilt ==
    /\ workflow.pc = "build"
    /\ builder.pc = "idle"
    /\ builderOut # "none"
    /\ IF execSyncThrows(BuilderExit) THEN WorkflowFails
       ELSE /\ workflow' = [pc |-> "scan",
                            steps |-> workflow.steps \o
                                <<"Liabilities built", "Scanning reserves...">>]
            /\ UNCHANGED workflowOut
    /\ UNCHANGED <<merkleVars, proverVars, adapterVars, registryVars, yellowVars, clientVars>>

\* The scanner runs to its exit: <<>> when it exits with code 1 (no reserves
\* addresses) or is timed out, <<totalWei>> when it writes the snapshot.
\* Step 3 is announced and the prover spawned, or the request fails.
WorkflowScan(scanned) ==
    /\ workflow.pc = "scan"
    /\ IF execSyncThrows(IF scanned = <<>> THEN 1 ELSE 0)
       THEN /\ WorkflowFails
            /\ UNCHANGED <<reservesFile, lastProverOut>>
       ELSE /\ reservesFile' =
                   IF scanned = <<>> THEN reservesFile
                   ELSE File([epoch_id |-> EpochRead,
                              reserves_total_wei |-> toString(scanned[1])])
            /\ workflow' = [pc |-> "prove",
                            steps |-> workflow.steps \o
                                <<"Reserves scanned", "Generating ZK proof...">>]
            /\ lastProverOut' = NoRun
            /\ UNCHANGED workflowOut
    /\ UNCHANGED <<merkleVars, inputFile, witnessFile, proofFile, publicFile,
                   artifactFile, clock, prover, artifactLog, adapterVars,
                   registryVars, yellowVars, clientVars>>

\* The prover has exited: step 4 is announced and the adapter spawned, or the
\* request fails.
WorkflowProved ==
    /\ workflow.pc = "prove"
    /\ prover["api"].pc = "idle"
    /\ lastProverOut.result # "none"
    /\ IF execSyncThrows(ProverExit)
       THEN /\ WorkflowFails
            /\ UNCHANGED adapterOut
       ELSE /\ workflow' = [pc |-> "submit",
                            steps |-> workflow.steps \o
                                <<"Proof generated", "Submitting proof on-chain...">>]
            /\ adapterOut' = NoAdapterRun
            /\ UNCHANGED workflowOut
    /\ UNCHANGED <<merkleVars, proverVars, adapter, submissionFile,
                   registryVars, yellowVars, clientVars>>

\* The adapter has exited: the response carries the steps and
\* submission_result.json (null when absent), or the request fails.
WorkflowSubmitted ==
    /\ workflow.pc = "submit"
    /\ adapter.pc = "idle"
    /\ adapterOut.result # "none"
    /\ IF execSyncThrows(AdapterExit) THEN WorkflowFails
       ELSE /\ workflow' = IdleWorkflow
            /\ workflowOut' = [status |-> 200, body |-> "Full workflow completed",
                               steps |-> Append(workflow.steps, "Proof submitted on-chain"),
                               submission |-> submissionFile]
    /\ UNCHANGED <<merkleVars, proverVars, adapterVars, registryVars, yellowVars, clientVars>>

\* The lines of `results` at the start of each step.
WorkflowSteps ==
    <<"Building liabilities...", "Liabilities built", "Scanning reserves...",
      "Reserves scanned", "Generating ZK proof...", "Proof generated",
      "Submitting proof on-chain...">>

-----------------------------------------------------------------------------
(* SpecProvers: two prover processes (a script run and an API request) over  *)
(* one set of input files, drawn from solvent and insolvent totals, with and *)
(* without the files present.                                                *)

LiabilityTotals == {12, 100}
ReserveTotals == {5, 24}

\* liabilities_root.json and liabilities_total.json of one builder run.
LiabilitiesFiles(ids) ==
    {[root |-> [liabilities_root |-> hashLeaf("alice", t), epoch_id |-> e,
                leaf_count |-> 1],
      total |-> [liabilities_total |-> toString(t), epoch_id |-> e]] :
         t \in LiabilityTotals, e \in ids}

\* reserves_snapshot.json of one scanner run.
ReservesFiles(ids) ==
    {[epoch_id |-> e, reserves_total_wei |-> toString(r)] :
         r \in ReserveTotals, e \in ids}

InitFiles ==
    /\ liabilitiesCsv = Absent
    /\ epochFile = Absent
    /\ builder = IdleBuilder
    /\ builderOut = "none"
    /\ inclusionFiles = [u \in Users |-> Absent]
    /\ verifyOut = NoVerify
    /\ inputFile = Absent
    /\ witnessFile = Absent
    /\ proofFile = Absent
    /\ publicFile = Absent
    /\ artifactFile = Absent
    /\ submissionFile = Absent
    /\ clock = 1
    /\ prover = [p \in Provers |-> IdleProver]
    /\ lastProverOut = NoRun
    /\ artifactLog = <<>>
    /\ adapter = IdleAdapter
    /\ adapterOut = NoAdapterRun

\* No session exists and no workflow request has been made.
InitServices ==
    /\ sessions = [id \in SessionIds |-> Absent]
    /\ history = [id \in SessionIds |-> <<>>]
    /\ lastYellow = NoYellow
    /\ workflow = IdleWorkflow
    /\ workflowOut = NoResponse

\* Nothing has been packed.
InitClient ==
    /\ packed = NoPacked
    /\ calls = <<>>
    /\ client = NewClient

InitRegistry ==
    /\ verifier = "MockVerifier"
    /\ alwaysValid = TRUE
    /\ proofs = <<>>
    /\ epochIds = <<>>
    /\ events = <<>>
    /\ blockTime = 1
    /\ lastTx = NoTx

InitInputs(rootIds, reservesIds) ==
    /\ \/ rootFile = Absent /\ totalFile = Absent
       \/ \E f \in LiabilitiesFiles(rootIds) :
              rootFile = File(f.root) /\ totalFile \in {Absent, File(f.total)}
    /\ reservesFile \in {Absent} \cup {File(f) : f \in ReservesFiles(reservesIds)}

InitProvers ==
    /\ InitFiles
    /\ InitRegistry
    /\ InitServices
    /\ InitClient
    /\ InitInputs({DefaultEpochId}, {DefaultEpochId})

NextProvers ==
    \/ \E p \in Provers : ProverStep(p)
    \/ Tick

SpecProvers == InitProvers /\ [][NextProvers]_vars

-----------------------------------------------------------------------------
(* SpecPipeline: prover runs one after another and the submission adapter,   *)
(* over input files whose epoch ids agree or differ.                         *)

InitPipeline ==
    /\ InitFiles
    /\ InitRegistry
    /\ InitServices
    /\ InitClient
    /\ InitInputs(EpochIds, EpochIds)

NextPipeline ==
    \/ ProverStep("cli")
    \/ Tick
    \/ AdapterNoProof
    \/ AdapterLoad
    \/ AdapterSubmit

SpecPipeline == InitPipeline /\ [][NextPipeline]_vars

-----------------------------------------------------------------------------
(* SpecRange: prover runs over totals at the edges of the comparator's       *)
(* range, of the field and of the 256-bit scale (ComparatorBits + 4 bits).   *)

Magnitudes ==
    {0, 1, 12, Pow2(ComparatorBits) - 1, Pow2(ComparatorBits),
     Pow2(ComparatorBits + 1) - 1, Pow2(ComparatorBits + 1),
     FieldPrime - 1, FieldPrime, FieldPrime + 1, Pow2(ComparatorBits + 4) - 1}

InitRange ==
    /\ InitFiles
    /\ InitRegistry
    /\ InitServices
    /\ InitClient
    /\ rootFile = File([liabilities_root |-> hashLeaf("alice", 12),
                        epoch_id |-> DefaultEpochId, leaf_count |-> 1])
    /\ \E l \in Magnitudes :
           totalFile = File([liabilities_total |-> toString(l),
                             epoch_id |-> DefaultEpochId])
    /\ \E r \in Magnitudes :
           reservesFile = File([epoch_id |-> DefaultEpochId,
                                reserves_total_wei |-> toString(r)])

NextRange ==
    \/ ProverReadRoot("cli")
    \/ ProverInsolvent("cli")
    \/ ProverWriteInput("cli")
    \/ ProverWitness("cli")
    \/ ProverWitnessFails("cli")
    \/ ProverProve("cli")
    \/ ProverProveFails("cli")
    \/ ProverReadProof("cli")
    \/ ProverVerify("cli")
    \/ ProverVerifyFails("cli")
    \/ ProverWriteArtifact("cli")
    \/ ProverKilled("cli")

SpecRange == InitRange /\ [][NextRange]_vars

-----------------------------------------------------------------------------
(* SpecRuns: CSV uploads, builder runs, scanner runs and a prover run over    *)
(* one output directory, in any interleaving of their reads and writes.      *)

\* The CSVs an operator uploads: totals 12 and 24.
RunCsvs == {<<[user_id |-> "alice", balance |-> toString(12)]>>,
            <<[user_id |-> "alice", balance |-> toString(12)],
              [user_id |-> "bob", balance |-> toString(12)]>>}

\* POST /api/liabilities/upload: liabilities.csv is replaced.
UploadCsv(csvContent) ==
    /\ liabilitiesCsv # File(csvContent)
    /\ liabilitiesCsv' = File(csvContent)
    /\ UNCHANGED <<epochFile, builder, builderOut, rootFile, totalFile,
                   inclusionFiles, verifyOut,
                   proverVars, adapterVars, registryVars,
                   yellowVars, clientVars, apiVars>>

\* A run of the reserves scanner that finds totalWei on the chain.
ScannerRun(totalWei) ==
    /\ reservesFile' = File([epoch_id |-> EpochRead,
                             reserves_total_wei |-> toString(totalWei)])
    /\ UNCHANGED <<merkleVars, inputFile, witnessFile, proofFile, publicFile,
                   artifactFile, clock, prover, lastProverOut, artifactLog,
                   adapterVars, registryVars,
                   yellowVars, clientVars, apiVars>>

InitRuns ==
    /\ InitFiles
    /\ InitRegistry
    /\ InitServices
    /\ InitClient
    /\ rootFile = Absent
    /\ totalFile = Absent
    /\ reservesFile = Absent

NextRuns ==
    \/ \E c \in RunCsvs : UploadCsv(c)
    \/ BuilderFail
    \/ BuilderWriteRoot
    \/ BuilderWriteTotal
    \/ BuilderWriteProofs
    \/ \E r \in ReserveTotals : ScannerRun(r)
    \/ ProverStep("cli")

SpecRuns == InitRuns /\ [][NextRuns]_vars

-----------------------------------------------------------------------------
(* SpecSubmitRace: CSV uploads and builder runs, one prover run and one run  *)
(* of the submission adapter over one output directory that holds a reserves *)
(* snapshot: a build may replace liabilities_root.json between the prover's  *)
(* read of it and the adapter's.                                             *)

InitSubmitRace ==
    /\ InitFiles
    /\ InitRegistry
    /\ InitServices
    /\ InitClient
    /\ rootFile = Absent
    /\ totalFile = Absent
    /\ reservesFile = File([epoch_id |-> DefaultEpochId,
                            reserves_total_wei |-> toString(24)])

NextSubmitRace ==
    \/ \E c \in RunCsvs : UploadCsv(c)
    \/ BuilderFail
    \/ BuilderWriteRoot
    \/ BuilderWriteTotal
    \/ BuilderWriteProofs
    \/ lastProverOut = NoRun /\ ProverStep("cli")
    \/ adapterOut = NoAdapterRun /\ AdapterNoProof
    \/ adapterOut = NoAdapterRun /\ AdapterLoad
    \/ AdapterSubmit

SpecSubmitRace == InitSubmitRace /\ [][NextSubmitRace]_vars

-----------------------------------------------------------------------------
(* SpecClient: a page's YellowClient: connects, closes, requests, inbound    *)
(* messages of any id, and timers.  A timer that was set fires: the event    *)
(* loop of the page runs it 30 seconds after send.                           *)

RequestIds == {toString(n) : n \in 1 .. MaxRequests}

NextClient ==
    \/ Connect
    \/ OnOpen
    \/ OnClose
    \/ Disconnect
    \/ \E data \in InboundMessages : OnMessage(data)
    \/ Send
    \/ \E id \in RequestIds : Timeout(id)

SpecClient ==
    /\ InitRuns
    /\ [][NextClient]_vars
    /\ \A id \in RequestIds : WF_vars(Timeout(id))

-----------------------------------------------------------------------------
(* SpecRebuild: the CSV is replaced and rebuilt, and users run the inclusion *)
(* verifier on the proof files the output directory holds.                   *)

NextRebuild ==
    \/ \E c \in RunCsvs : UploadCsv(c)
    \/ BuilderFail
    \/ BuilderWriteRoot
    \/ BuilderWriteTotal
    \/ BuilderWriteProofs
    \/ \E u \in Users : VerifyInclusion(u)

SpecRebuild == InitRuns /\ [][NextRebuild]_vars

-----------------------------------------------------------------------------
(* SpecRegistry: any account submits any tuple to the registry, the owner    *)
(* repoints the verifier, the mock verifier's answer is switched.            *)

RegistryEpochs == {1, 2}
RegistryRoots == {3, 4}
RegistryReserves == {5}

InitRegistryOnly ==
    /\ InitFiles
    /\ InitRegistry
    /\ InitServices
    /\ InitClient
    /\ rootFile = Absent
    /\ totalFile = Absent
    /\ reservesFile = Absent

NextRegistry ==
    \/ \E s \in Senders, e \in RegistryEpochs, r \in RegistryRoots, t \in RegistryReserves :
           RegistrySubmitProof(s, e, r, t)
    \/ \E s \in Senders, v \in Verifiers : RegistrySetVerifier(s, v)
    \/ \E b \in BOOLEAN : MockSetAlwaysValid(b)
    \/ NextBlock

SpecRegistry == InitRegistryOnly /\ [][NextRegistry]_vars

-----------------------------------------------------------------------------
(* SpecResubmit: prover runs over solvent inputs, the submission adapter,    *)
(* and another account that submits to the registry directly.                *)

InitResubmit ==
    /\ InitFiles
    /\ InitRegistry
    /\ InitServices
    /\ InitClient
    /\ rootFile = File([liabilities_root |-> hashLeaf("alice", 12),
                        epoch_id |-> DefaultEpochId, leaf_count |-> 1])
    /\ totalFile = File([liabilities_total |-> toString(12),
                         epoch_id |-> DefaultEpochId])
    /\ reservesFile = File([epoch_id |-> DefaultEpochId,
                            reserves_total_wei |-> toString(24)])

NextResubmit ==
    \/ ProverReadRoot("cli")
    \/ ProverWriteInput("cli")
    \/ ProverWitness("cli")
    \/ ProverWitnessFails("cli")
    \/ ProverProve("cli")
    \/ ProverProveFails("cli")
    \/ ProverReadProof("cli")
    \/ ProverVerify("cli")
    \/ ProverVerifyFails("cli")
    \/ ProverWriteArtifact("cli")
    \/ ProverKilled("cli")
    \/ AdapterNoProof
    \/ AdapterLoad
    \/ AdapterSubmit
    \/ \E e \in RegistryEpochs, t \in RegistryReserves :
           RegistrySubmitProof("other", e, 3, t)

SpecResubmit == InitResubmit /\ [][NextResubmit]_vars

-----------------------------------------------------------------------------
(* SpecBuilder: builder runs over CSVs that may be missing, empty or hold    *)
(* rows with an invalid balance.                                             *)

InitBuilder ==
    /\ liabilitiesCsv \in {Absent} \cup {File(c) : c \in BuilderCsvs}
    /\ epochFile \in {Absent} \cup {File(e) : e \in EpochIds}
    /\ builder = IdleBuilder
    /\ builderOut = "none"
    /\ rootFile = Absent
    /\ totalFile = Absent
    /\ inclusionFiles = [u \in Users |-> Absent]
    /\ verifyOut = NoVerify
    /\ reservesFile = Absent
    /\ inputFile = Absent
    /\ witnessFile = Absent
    /\ proofFile = Absent
    /\ publicFile = Absent
    /\ artifactFile = Absent
    /\ submissionFile = Absent
    /\ clock = 1
    /\ prover = [p \in Provers |-> IdleProver]
    /\ lastProverOut = NoRun
    /\ artifactLog = <<>>
    /\ adapter = IdleAdapter
    /\ adapterOut = NoAdapterRun
    /\ InitRegistry
    /\ InitServices
    /\ InitClient

NextBuilder ==
    \/ BuilderFail
    \/ BuilderWriteRoot
    \/ BuilderWriteTotal
    \/ BuilderWriteProofs

SpecBuilder == InitBuilder /\ [][NextBuilder]_vars

-----------------------------------------------------------------------------
(* SpecMerkle: one liabilities CSV, drawn from every list of up to           *)
(* MaxRecords rows, built and verified.                                      *)

InitMerkle ==
    /\ liabilitiesCsv \in {File(c) : c \in AllCsvs}
    /\ epochFile = Absent
    /\ builder = IdleBuilder
    /\ builderOut = "none"
    /\ rootFile = Absent
    /\ totalFile = Absent
    /\ inclusionFiles = [u \in Users |-> Absent]
    /\ verifyOut = NoVerify
    /\ reservesFile = Absent
    /\ inputFile = Absent
    /\ witnessFile = Absent
    /\ proofFile = Absent
    /\ publicFile = Absent
    /\ artifactFile = Absent
    /\ submissionFile = Absent
    /\ clock = 1
    /\ prover = [p \in Provers |-> IdleProver]
    /\ lastProverOut = NoRun
    /\ artifactLog = <<>>
    /\ adapter = IdleAdapter
    /\ adapterOut = NoAdapterRun
    /\ InitRegistry
    /\ InitServices
    /\ InitClient

NextMerkle ==
    \/ BuilderFail
    \/ BuilderWriteRoot
    \/ BuilderWriteTotal
    \/ BuilderWriteProofs
    \/ \E u \in Users : VerifyInclusion(u)
    \/ \E u \in Users : VerifyTampered(u)

SpecMerkle == InitMerkle /\ [][NextMerkle]_vars

-----------------------------------------------------------------------------
(* SpecYellow: the session service over one session id, created with one of  *)
(* three participant lists and driven by updates that name participants,     *)
(* a stranger, and amounts that are not valid balances.                      *)

ParticipantLists == {<<"alice">>, <<"alice", "bob">>, <<"alice", "__proto__">>}

\* Request bodies of PUT /api/yellow/session/:id/allocations, as JSON.parse
\* builds them.
AllocationUpdates ==
    {<<>>,
     <<[key |-> "alice", value |-> toString(12)]>>,
     <<[key |-> "bob", value |-> toString(12)]>>,
     <<[key |-> "alice", value |-> <<Minus, 5>>]>>,
     <<[key |-> "alice", value |-> toString(12)], [key |-> "bob", value |-> toString(0)]>>,
     <<[key |-> "carol", value |-> toString(12)]>>,
     <<[key |-> "alice", value |-> toString(12)], [key |-> "carol", value |-> toString(12)]>>,
     <<[key |-> "__proto__", value |-> toString(12)]>>}

NextYellow ==
    \/ \E id \in SessionIds, p \in ParticipantLists, c \in ChannelIds :
           createSession(id, p, c)
    \/ \E id \in SessionIds, u \in AllocationUpdates : updateAllocations(id, u)
    \/ \E id \in SessionIds : closeSession(id)
    \/ \E id \in SessionIds : exportToLiabilities(id)

SpecYellow == InitRuns /\ [][NextYellow]_vars

-----------------------------------------------------------------------------
(* SpecOverlap: calls of updateAllocations and closeSession on one session   *)
(* of alice and bob that may be started while another waits for its          *)
(* signature, as in Promise.all([update, update]).                           *)

OverlapUpdates ==
    {<<[key |-> "alice", value |-> toString(12)]>>,
     <<[key |-> "bob", value |-> toString(12)]>>}

NextOverlap ==
    \/ \E id \in SessionIds, c \in ChannelIds : createSession(id, <<"alice", "bob">>, c)
    \/ \E id \in SessionIds, u \in OverlapUpdates : updateAllocationsAwait(id, u)
    \/ \E id \in SessionIds : closeSessionAwait(id)
    \/ \E i \in 1 .. MaxCalls : ResumeCall(i)

SpecOverlap == InitRuns /\ [][NextOverlap]_vars

-----------------------------------------------------------------------------
(* SpecWorkflow: full-workflow requests, one after the other, over CSV       *)
(* uploads made between them.  The scripts run only as children of the       *)
(* request, each while the handler waits in its step.  The adapter finds     *)
(* the files it loads: the steps before it have written them.                *)

NextWorkflow ==
    \/ \E c \in RunCsvs : workflow.pc = "idle" /\ UploadCsv(c)
    \/ WorkflowRequest
    \/ workflow.pc = "build" /\ builderOut = "none" /\ BuilderFail
    \/ workflow.pc = "build" /\ builderOut = "none" /\ BuilderWriteRoot
    \/ workflow.pc = "build" /\ BuilderWriteTotal
    \/ workflow.pc = "build" /\ BuilderWriteProofs
    \/ WorkflowBuilt
    \/ \E scanned \in {<<>>} \cup {<<r>> : r \in ReserveTotals} : WorkflowScan(scanned)
    \/ workflow.pc = "prove" /\ lastProverOut.result = "none" /\ ProverStep("api")
    \/ WorkflowProved
    \/ workflow.pc = "submit" /\ adapterOut.result = "none" /\ AdapterLoad
    \/ workflow.pc = "submit" /\ AdapterSubmit
    \/ WorkflowSubmitted

SpecWorkflow == InitRuns /\ [][NextWorkflow]_vars

-----------------------------------------------------------------------------
(* SpecEncoding: the bytes hashLeaf feeds into keccak256,                    *)
(* encodePacked(["string", "uint256"], [userId, balance]), for two leaf      *)
(* records.  A byte is scaled to a base-4 digit and the 32 bytes of a        *)
(* uint256 to two of them; an identifier is the sequence of its UTF-8 bytes. *)

ByteBase == 4
Uint256Bytes == 2
MaxIdBytes == 2

\* The `width` low-order bytes of n, most significant first.
RECURSIVE BigEndian(_, _)
BigEndian(n, width) ==
    IF width = 0 THEN <<>>
    ELSE Append(BigEndian(n \div ByteBase, width - 1), n % ByteBase)

\* The mutation of the uint256 encoding: leading zero bytes are dropped.
encodeUint256Shortest(balance) ==
    IF balance < ByteBase THEN BigEndian(balance, 1)
    ELSE BigEndian(balance, Uint256Bytes)

\* encodePacked of a uint256: the full width, whatever the value.
encodeUint256(balance) == BigEndian(balance, Uint256Bytes)

\* encodePacked(["string", "uint256"], [userId, balance]): the bytes of the
\* string, with no length in front, then the integer.
encodePacked(userId, balance) == userId \o encodeUint256(balance)

\* Identifiers of up to MaxIdBytes bytes over two byte values that also occur
\* in balances, and every balance a uint256 holds.
LeafRecords ==
    {[userId |-> u, balance |-> b] :
        u \in SeqsUpTo({0, 1}, MaxIdBytes),
        b \in 0 .. ByteBase * ByteBase - 1}

InitEncoding ==
    /\ InitFiles
    /\ InitRegistry
    /\ InitServices
    /\ rootFile = Absent
    /\ totalFile = Absent
    /\ reservesFile = Absent
    /\ packed \in {[pairs |-> <<a, b>>, bytes |-> <<>>] : a, b \in LeafRecords}
    /\ calls = <<>>
    /\ client = NewClient

\* hashLeaf packs both records.
PackLeaves ==
    /\ packed.bytes = <<>>
    /\ packed' = [packed EXCEPT !.bytes =
                     <<encodePacked(packed.pairs[1].userId, packed.pairs[1].balance),
                       encodePacked(packed.pairs[2].userId, packed.pairs[2].balance)>>]
    /\ UNCHANGED <<merkleVars, proverVars, adapterVars, registryVars,
                   yellowVars, apiVars, calls, client>>

NextEncoding == PackLeaves

SpecEncoding == InitEncoding /\ [][NextEncoding]_vars

-----------------------------------------------------------------------------
(* Properties of the commitment.                                             *)

\* C1 (inclusion round-trip): for every leaf i of the tree the builder built,
\* verifyProof(leaf.hash, generateProof(tree, i), tree.root, i) is true, odd
\* layers with a promoted node included.
C1_RoundTrip ==
    builder.tree # NoTree =>
        LET t == builder.tree[1]
        IN  \A i \in 1 .. Len(t.leaves) :
                verifyProof(t.leaves[i].hash, generateProof(t, t.leaves[i].index),
                            t.root, t.leaves[i].index)

\* A built tree of five leaves: the last leaf is promoted at two layers and
\* its path has a single sibling.
C1_Witness ==
    /\ builder.tree # NoTree
    /\ Len(builder.tree[1].leaves) = 5
    /\ Len(generateProof(builder.tree[1], 4)) = 1
    /\ Len(generateProof(builder.tree[1], 0)) = 3
    /\ verifyProof(builder.tree[1].leaves[5].hash, generateProof(builder.tree[1], 4),
                   builder.tree[1].root, 4)

\* C2 (inclusion rejects tampering): a verifier run on a copy of a proof file
\* that passes the inclusion check, with exactly one of balance, userId, one
\* sibling digest or the root changed to a different value, never reports
\* success (keccak256 collision-free).
C2_RejectsTampering ==
    (verifyOut.tamper # "none" /\ verifyOut.base = "verified")
        => verifyOut.result # "verified"

\* A verifier run on a copy with a changed sibling digest has been rejected,
\* while the untampered file passes.
C2_Witness ==
    /\ verifyOut.tamper = "sibling"
    /\ verifyOut.base = "verified"
    /\ verifyOut.result = "invalid"

-----------------------------------------------------------------------------
(* Properties of the prover.                                                 *)

\* C3 (a proof exists only if the entity is solvent): every solvency_proof.json
\* a prover run writes has publicSignals[0] = "1" and was written by a run that
\* loaded reservesTotal >= liabilitiesTotal; every witness and proof on disk
\* states isSolvent = 1; no run that loaded reservesTotal < liabilitiesTotal
\* writes the artifact.
C3_ProofOnlyIfSolvent ==
    /\ artifactLog # <<>> =>
           /\ artifactLog[1].result.publicSignals[1] = toString(1)
           /\ artifactLog[1].result.calldata.pubSignals[1] = 1
           /\ BigInt(artifactLog[1].reservesTotal)[1] >= BigInt(artifactLog[1].liabilitiesTotal)[1]
    /\ Exists(artifactFile) => Content(artifactFile).publicSignals[1] = toString(1)
    /\ Exists(witnessFile) => Content(witnessFile).public[1] = 1
    /\ Exists(proofFile) => ProofStatement(Content(proofFile))[1] = 1
    /\ "artifact" \in lastProverOut.wrote =>
           BigInt(lastProverOut.reservesTotal)[1] >= BigInt(lastProverOut.liabilitiesTotal)[1]

\* A run over reserves 24 and liabilities 12 has written the artifact.
C3_Witness ==
    /\ lastProverOut.result = "ok"
    /\ lastProverOut.reservesTotal = toString(24)
    /\ lastProverOut.liabilitiesTotal = toString(12)
    /\ Exists(artifactFile)
    /\ Content(artifactFile).publicSignals[1] = toString(1)

\* C4 (insolvency is rejected before any proving attempt): a run that loaded
\* reservesTotal < liabilitiesTotal ends with the insolvency error having
\* written no file (no input.json, witness, proof.json, public.json or
\* solvency_proof.json), and no run is past the precheck with such totals.
C4_InsolvencyRejectedFirst ==
    /\ \A p \in Provers :
           prover[p].pc \notin {"idle", "readRoot"} =>
               BigInt(prover[p].reservesTotal)[1] >= BigInt(prover[p].liabilitiesTotal)[1]
    /\ (/\ lastProverOut.reservesTotal # <<>>
        /\ lastProverOut.liabilitiesTotal # <<>>
        /\ BigInt(lastProverOut.reservesTotal)[1] < BigInt(lastProverOut.liabilitiesTotal)[1])
           => lastProverOut.result = "insolvent" /\ lastProverOut.wrote = {}
    /\ lastProverOut.result = "insolvent" =>
           /\ lastProverOut.wrote = {}
           /\ BigInt(lastProverOut.reservesTotal)[1] < BigInt(lastProverOut.liabilitiesTotal)[1]

\* A run over reserves 5 and liabilities 12 has ended with the insolvency
\* error, and no input.json, proof or artifact exists.
C4_Witness ==
    /\ lastProverOut.result = "insolvent"
    /\ lastProverOut.reservesTotal = toString(5)
    /\ lastProverOut.liabilitiesTotal = toString(12)
    /\ lastProverOut.wrote = {}
    /\ ~Exists(inputFile) /\ ~Exists(proofFile) /\ ~Exists(artifactFile)

\* C5 (local verification is a hard stop): solvency_proof.json is written only
\* after the local verification of the proof generated in that same run has
\* succeeded: the proof and signals the run's verification accepted are the
\* ones its proving step wrote and the ones it puts in the artifact; a run
\* whose verification fails writes no artifact.
C5_VerifiedOwnProof ==
    /\ artifactLog # <<>> =>
           /\ artifactLog[1].verified = artifactLog[1].generated
           /\ artifactLog[1].result.proof = artifactLog[1].generated[1]
           /\ artifactLog[1].result.publicSignals = artifactLog[1].generated[2]
    /\ lastProverOut.result = "verifyFailed" => "artifact" \notin lastProverOut.wrote

\* C6 (no partial success): a submission adapter run that comes next after a
\* prover run that failed or was killed finds no proof artifact to submit.
C6_NoProofAfterFailedRun ==
    adapter.pc = "loaded" =>
        adapter.afterRun \notin {"missing", "insolvent", "witnessFailed",
                                 "proveFailed", "verifyFailed", "killed"}

\* C7 (epoch binding): the epochId public signal of every artifact the prover
\* writes is the epoch_id of the liabilities_root.json and of the
\* reserves_snapshot.json the run read, and those two agree.
C7_EpochBinding ==
    artifactLog # <<>> =>
        /\ artifactLog[1].rootEpoch = artifactLog[1].reservesEpoch
        /\ artifactLog[1].result.publicSignals[4] = artifactLog[1].rootEpoch

-----------------------------------------------------------------------------
(* Properties of the registry.                                               *)

\* C8 (the registry records only verifier-accepted submissions): a submitProof
\* succeeds only when the verifier returned true for the signals built from
\* exactly the submitted (liabilitiesRoot, reservesTotal, epochId); a call the
\* verifier did not accept reverts with proofs, epochIds and the events as
\* before; every stored record has verified = true, a non-zero timestamp, its
\* key as epochId, and one event with its fields.
C8_OnlyAccepted ==
    /\ [](/\ \A e \in DOMAIN proofs :
                 /\ proofs[e].verified
                 /\ proofs[e].timestamp # 0
                 /\ proofs[e].epochId = e
                 /\ \E i \in 1 .. Len(events) :
                        events[i] = [epochId |-> e,
                                     liabilitiesRoot |-> proofs[e].liabilitiesRoot,
                                     reservesTotal |-> proofs[e].reservesTotal,
                                     timestamp |-> proofs[e].timestamp,
                                     submitter |-> proofs[e].submitter]
          /\ Len(events) = Cardinality(DOMAIN proofs)
          /\ (lastTx.fn = "submitProof" /\ lastTx.status = "success") =>
                 /\ lastTx.verdict = "true"
                 /\ lastTx.handed = <<<<lastTx.liabilitiesRoot, lastTx.reservesTotal,
                                        lastTx.epochId>>>>
                 /\ proofs[lastTx.epochId].liabilitiesRoot = lastTx.liabilitiesRoot
                 /\ proofs[lastTx.epochId].reservesTotal = lastTx.reservesTotal
                 /\ proofs[lastTx.epochId].submitter = lastTx.sender)
    /\ [][(lastTx'.fn = "submitProof" /\ lastTx'.verdict # "true")
              => UNCHANGED <<proofs, epochIds, events>>]_vars

\* A submission the verifier answered false for has reverted, its epoch has no
\* record, and an earlier accepted submission is stored.
C8_Witness ==
    /\ lastTx.fn = "submitProof"
    /\ lastTx.verdict = "false"
    /\ lastTx.status = "reverted"
    /\ lastTx.epochId \notin DOMAIN proofs
    /\ Len(epochIds) = 1
    /\ proofs[epochIds[1]].verified

\* C9 (the registry is append-only per epoch): each epochId has at most one
\* record and occurs at most once in epochIds; a stored record never changes,
\* epochIds only grows at its end, and a submitProof for an epochId that has a
\* record reverts with proofs, epochIds and the events as before.
C9_AppendOnly ==
    /\ [](/\ \A i, j \in 1 .. Len(epochIds) : epochIds[i] = epochIds[j] => i = j
          /\ {epochIds[i] : i \in 1 .. Len(epochIds)} = DOMAIN proofs
          /\ getEpochCount = Cardinality(DOMAIN proofs))
    /\ [][/\ \A e \in DOMAIN proofs : e \in DOMAIN proofs' /\ proofs'[e] = proofs[e]
          /\ Len(epochIds') >= Len(epochIds)
          /\ SubSeq(epochIds', 1, Len(epochIds)) = epochIds
          /\ (lastTx'.fn = "submitProof" /\ lastTx'.epochId \in DOMAIN proofs)
                 => UNCHANGED <<proofs, epochIds, events>>]_vars

\* A second submission for a recorded epoch, with another root, has reverted
\* and the record holds the first root.
C9_Witness ==
    /\ lastTx.fn = "submitProof"
    /\ lastTx.status = "reverted"
    /\ lastTx.verdict = "none"
    /\ lastTx.epochId \in DOMAIN proofs
    /\ proofs[lastTx.epochId].liabilitiesRoot # lastTx.liabilitiesRoot
    /\ Len(epochIds) = 2

\* C10 (one public-signal tuple): the tuple the registry hands to the verifier
\* in submitProof is, in order and length, the tuple the submission adapter
\* sends with the transaction (the pubSignals of the artifact's calldata).
C10_SameTuple ==
    adapterOut.result \in {"submitted", "failed"} =>
        lastTx.handed = <<adapterOut.pubSignals>>

-----------------------------------------------------------------------------
(* Properties of the artifact set.                                           *)

\* C11 (shape of the proof artifact): publicSignals of solvency_proof.json are
\* [isSolvent, liabilitiesRoot, reservesTotal, epochId] of the input files;
\* calldata has pA of length 2, pB of shape 2x2, pC of length 2 and pubSignals
\* of length 4 equal, as numbers, to publicSignals; the adapter's epochId and
\* reservesTotal arguments are pubSignals[3] and pubSignals[2] (0-based) of
\* the artifact it loaded.
C11_ArtifactShape ==
    /\ Exists(artifactFile) =>
           LET a == Content(artifactFile)
           IN  /\ Len(a.publicSignals) = 4
               /\ a.publicSignals[1] = toString(1)
               /\ a.publicSignals[2] =
                      toString(RootValue(Content(rootFile).liabilities_root) % FieldPrime)
               /\ a.publicSignals[3] =
                      toString(FieldOf(Content(reservesFile).reserves_total_wei))
               /\ BigInt(a.publicSignals[4])[1] \in 1 .. clock
               /\ Len(a.calldata.pA) = 2
               /\ Len(a.calldata.pB) = 2
               /\ \A i \in 1 .. 2 : Len(a.calldata.pB[i]) = 2
               /\ Len(a.calldata.pC) = 2
               /\ Len(a.calldata.pubSignals) = 4
               /\ \A i \in 1 .. 4 :
                      a.calldata.pubSignals[i] = BigInt(a.publicSignals[i])[1]
    /\ adapter.pc = "loaded" =>
           /\ adapter.epochId = adapter.pubSignals[4]
           /\ adapter.reservesTotal = adapter.pubSignals[3]

\* C12 (the host precheck agrees with the circuit): for totals up to the
\* 256-bit scale, a run whose precheck passed finds a satisfying witness for
\* the input it wrote, and the totals of a run that ended with the insolvency
\* error have no satisfying witness.
C12_PrecheckAgreesWithCircuit ==
    /\ prover["cli"].pc = "wroteInput" => Solvency(Content(inputFile)) # <<>>
    /\ lastProverOut.result = "insolvent" =>
           Solvency([liabilitiesRoot |-> toString(0),
                     reservesTotal |-> lastProverOut.reservesTotal,
                     epochId |-> toString(0),
                     liabilitiesTotal |-> lastProverOut.liabilitiesTotal]) = <<>>

\* C13 (order sensitivity is contained): every ordering of the same records
\* gives the root the builder computed for the order of the CSV.
C13_RootOrderInvariant ==
    builder.tree # NoTree =>
        LET e == BuilderEntries[1]
        IN  \A f \in Permutations(1 .. Len(e)) :
                buildMerkleTree([i \in 1 .. Len(e) |-> e[f[i]]]).root
                    = builder.tree[1].root

\* C14 (sum invariant): the total of the tree, and the total the builder
\* writes to liabilities_total.json, is the exact sum of the balances of the
\* CSV's records (every balance of these records is 0 or 12, so the sum is
\* twelve times the number of records holding 12).
C14_SumInvariant ==
    LET rows  == Content(liabilitiesCsv)
        exact == 12 * Cardinality({i \in 1 .. Len(rows) :
                                       rows[i].balance = toString(12)})
    IN  /\ builder.tree # NoTree => builder.tree[1].total = exact
        /\ Exists(totalFile) =>
               Content(totalFile).liabilities_total = toString(exact)

C14_Witness ==
    /\ Exists(totalFile)
    /\ Content(totalFile).liabilities_total = toString(36)
    /\ builderOut = "ok"

\* C20 (one inclusion proof per record): after a completed builder run every
\* record of the CSV, two records sharing an identifier included, has its
\* own inclusion proof artifact on disk.
C20_ProofPerRecord ==
    builderOut = "ok" =>
        LET t == buildMerkleTree(BuilderEntries[1])
        IN  \A i \in 1 .. Len(t.leaves) :
                \E u \in DOMAIN inclusionFiles :
                    /\ Exists(inclusionFiles[u])
                    /\ Content(inclusionFiles[u]) = InclusionProofOf(t, t.leaves[i])

\* C15 (empty input is rejected): buildMerkleTree throws on zero records, and
\* a builder run over a CSV with no data rows ends with an error and writes
\* none of liabilities_root.json, liabilities_total.json or an inclusion
\* proof file.
C15_EmptyInputRejected ==
    /\ buildMerkleTreeThrows(<<>>)
    /\ (Exists(liabilitiesCsv) /\ Content(liabilitiesCsv) = <<>>) =>
           /\ builder = IdleBuilder
           /\ builderOut \in {"none", "error"}
           /\ rootFile = Absent
           /\ totalFile = Absent
           /\ \A u \in Users : inclusionFiles[u] = Absent

C15_Witness ==
    /\ Exists(liabilitiesCsv)
    /\ Content(liabilitiesCsv) = <<>>
    /\ builderOut = "error"
    /\ rootFile = Absent

\* C16 (invalid balances are rejected): a builder run over a CSV holding a
\* record whose balance is not a non-negative decimal integer ends with an
\* error and writes no root, no total and no inclusion proof.
C16_InvalidBalanceRejected ==
    (/\ Exists(liabilitiesCsv)
     /\ \E i \in 1 .. Len(Content(liabilitiesCsv)) :
            LET b == Content(liabilitiesCsv)[i].balance
            IN  b = <<>> \/ ~AllDigits(b)) =>
        /\ builderOut \in {"none", "error"}
        /\ rootFile = Absent
        /\ totalFile = Absent
        /\ \A u \in Users : inclusionFiles[u] = Absent

\* C17 (gather fails on any missing artifact): while liabilities_root.json,
\* liabilities_total.json or reserves_snapshot.json is absent, no run gets
\* past the gathering of its inputs, every finished run failed for a missing
\* input (never for insolvency) having written nothing, and no circuit input,
\* witness, proof or proof artifact exists.
C17_GatherFailsOnMissing ==
    (~Exists(rootFile) \/ ~Exists(totalFile) \/ ~Exists(reservesFile)) =>
        /\ \A p \in Provers : /\ prover[p].pc \in {"idle", "readRoot"}
                              /\ prover[p].wrote = {}
        /\ lastProverOut.result \in {"none", "missing", "killed"}
        /\ lastProverOut.wrote = {}
        /\ inputFile = Absent
        /\ witnessFile = Absent
        /\ proofFile = Absent
        /\ publicFile = Absent
        /\ artifactFile = Absent
        /\ artifactLog = <<>>

C17_Witness ==
    /\ Exists(rootFile)
    /\ Exists(totalFile)
    /\ ~Exists(reservesFile)
    /\ lastProverOut.result = "missing"
    /\ lastProverOut.liabilitiesTotal # <<>>

\* C18 (access to the artifact set is serialized): the liabilities root and
\* the liabilities total a prover run has loaded come from one builder run,
\* that is, they are the root and the total of the tree of one CSV.
C18_RootAndTotalOfOneRun ==
    prover["cli"].pc = "wroteInput" =>
        \E c \in RunCsvs :
            LET t == buildMerkleTree(EntriesOf(c)[1])
            IN  /\ prover["cli"].liabilitiesRoot = t.root
                /\ prover["cli"].liabilitiesTotal = toString(t.total)

C21_VerifiedAgainstPublishedRoot ==
    [][(verifyOut' # verifyOut /\ verifyOut'.result = "verified") =>
           /\ Exists(rootFile)
           /\ Content(inclusionFiles[verifyOut'.userId]).root
                  = Content(rootFile).liabilities_root]_vars

\* C22 (the private liabilities total does not leave the proving process):
\* had the run that wrote the artifact been given any other solvent
\* liabilitiesTotal, its public signals and calldata signals (from which the
\* adapter takes the registry arguments) and the response of
\* POST /api/proof/generate would have been the same.
C22_TotalStaysPrivate ==
    artifactLog # <<>> =>
        LET run == artifactLog[1]
            a == run.result
            input(l) == [liabilitiesRoot |-> a.publicSignals[2],
                         reservesTotal |-> run.reservesTotal,
                         epochId |-> a.publicSignals[4],
                         liabilitiesTotal |-> l]
        IN  \A m \in Magnitudes :
                (/\ ~Insolvent(run.reservesTotal, toString(m))
                 /\ Solvency(input(toString(m))) # <<>>) =>
                    /\ PublicJson(Solvency(input(toString(m)))[1]) = a.publicSignals
                    /\ [i \in 1 .. 4 |-> FieldOf(a.publicSignals[i])]
                           = a.calldata.pubSignals
                    /\ ProofGenerateResponse(a, ProverStdout(toString(m),
                                                run.reservesTotal, a.publicSignals))
                         = ProofGenerateResponse(a, ProverStdout(run.liabilitiesTotal,
                                                run.reservesTotal, a.publicSignals))

C24_ClosedIsTerminal ==
    [][\A id \in SessionIds :
           (Exists(sessions[id]) /\ Content(sessions[id]).status = "closed") =>
               /\ sessions'[id] = sessions[id]
               /\ history'[id] = history[id]
               /\ (/\ lastYellow' # lastYellow
                   /\ lastYellow'.sessionId = id
                   /\ lastYellow'.op \in {"updateAllocations", "closeSession"})
                      => lastYellow'.result # "ok"]_vars

\* A closed session on which an update has just been refused.
C24_Witness ==
    \E id \in SessionIds :
        /\ Exists(sessions[id])
        /\ Content(sessions[id]).status = "closed"
        /\ Content(sessions[id]).nonce >= 2
        /\ lastYellow = [op |-> "updateAllocations", sessionId |-> id,
                         arg |-> <<[key |-> "alice", value |-> toString(12)]>>,
                         result |-> "Session is not open"]

\* C25: a new session is open with nonce 0 and the allocation "0" for every
\* participant, and in every state of a session the set of the keys of its
\* allocations is the set of its participants.
C25_KeysAreParticipants ==
    \A id \in SessionIds :
        Exists(sessions[id]) =>
            LET session == Content(sessions[id])
                members == {session.participants[i] : i \in 1 .. Len(session.participants)}
            IN  /\ Keys(session.allocations) = members
                /\ (lastYellow.op = "createSession" /\ lastYellow.sessionId = id) =>
                       /\ session.status = "open"
                       /\ session.nonce = 0
                       /\ \A m \in members :
                              Get(session.allocations, m) = <<toString(0)>>

\* C26: allocation updates accumulate.  A successful updateAllocations with
\* the map U gives every participant in U the value of U, leaves every other
\* participant the value it had, and leaves participants, channelId and
\* status as they were.
C26_UpdatesAccumulate ==
    [][\A id \in SessionIds :
           (/\ sessions'[id] # sessions[id]
            /\ lastYellow'.op = "updateAllocations"
            /\ lastYellow'.result = "ok") =>
               LET U == lastYellow'.arg
                   before == Content(sessions[id])
                   after == Content(sessions'[id])
               IN  /\ \A m \in {before.participants[i] : i \in 1 .. Len(before.participants)} :
                          Get(after.allocations, m) =
                              IF m \in Keys(U) THEN Get(U, m)
                              ELSE Get(before.allocations, m)
                   /\ after.participants = before.participants
                   /\ after.channelId = before.channelId
                   /\ after.status = before.status]_vars

\* An update of bob alone has left the amount alice was given before.
C26_Witness ==
    \E id \in SessionIds :
        /\ Exists(sessions[id])
        /\ lastYellow = [op |-> "updateAllocations", sessionId |-> id,
                         arg |-> <<[key |-> "bob", value |-> toString(12)]>>,
                         result |-> "ok"]
        /\ Get(Content(sessions[id]).allocations, "alice") = <<<<Minus, 5>>>>
        /\ Get(Content(sessions[id]).allocations, "bob") = <<toString(12)>>

\* C27: the history is a complete audit trail.  In every state the history
\* of a session holds one entry per nonce 0, 1, ..., nonce, in that order, the
\* last being the stored state's nonce, stateHash, allocations and status;
\* a step either leaves record and history alone or is a successful
\* updateAllocations or closeSession that raises the nonce by exactly 1 and
\* appends exactly the entry of the new state.
C27_HistoryIsAuditTrail ==
    /\ [](\A id \in SessionIds :
             IF Exists(sessions[id])
             THEN /\ Len(history[id]) = Content(sessions[id]).nonce + 1
                  /\ \A i \in 1 .. Len(history[id]) : history[id][i].nonce = i - 1
                  /\ history[id][Len(history[id])] = HistoryEntry(Content(sessions[id]))
             ELSE history[id] = <<>>)
    /\ [][\A id \in SessionIds :
             Exists(sessions[id]) =>
                 \/ sessions'[id] = sessions[id] /\ history'[id] = history[id]
                 \/ /\ lastYellow'.op \in {"updateAllocations", "closeSession"}
                    /\ lastYellow'.sessionId = id
                    /\ lastYellow'.result = "ok"
                    /\ Content(sessions'[id]).nonce = Content(sessions[id]).nonce + 1
                    /\ history'[id] =
                           Append(history[id], HistoryEntry(Content(sessions'[id])))]_vars

\* A session updated, closed at nonce 2, and then refused a second close.
C27_Witness ==
    \E id \in SessionIds :
        /\ Exists(sessions[id])
        /\ Content(sessions[id]).nonce = 2
        /\ Len(history[id]) = 3
        /\ history[id][2].status = "open"
        /\ history[id][3].status = "closed"
        /\ lastYellow.op = "closeSession"
        /\ lastYellow.result = "Session already closed"

\* C29: after a successful exportToLiabilities of a session in which every
\* participant has an allocation, liabilities.csv holds exactly one row per
\* participant with that participant's stored allocation, and a build from
\* the file has total = the sum of the session's allocations; an export
\* changes neither the session nor its history, and one of a session that
\* does not exist writes nothing.
C29_ExportFeedsBuilder ==
    /\ [](\A id \in SessionIds :
             (/\ lastYellow.op = "exportToLiabilities"
              /\ lastYellow.sessionId = id
              /\ lastYellow.result = "ok"
              /\ Keys(Content(sessions[id]).allocations) =
                     {Content(sessions[id]).participants[i] :
                          i \in 1 .. Len(Content(sessions[id]).participants)}) =>
                 LET allocations == Content(sessions[id]).allocations
                     rows == Content(liabilitiesCsv)
                 IN  /\ Exists(liabilitiesCsv)
                     /\ Len(rows) = Cardinality(Keys(allocations))
                     /\ \A i \in 1 .. Len(rows) :
                            Get(allocations, rows[i].user_id) = <<rows[i].balance>>
                     /\ BuilderEntries # <<>>
                     /\ buildMerkleTree(BuilderEntries[1]).total =
                            SumBalances(EntriesOf(ExportRows(allocations))[1]))
    /\ [][(lastYellow' # lastYellow /\ lastYellow'.op = "exportToLiabilities") =>
             /\ sessions' = sessions
             /\ history' = history
             /\ lastYellow'.result # "ok" => liabilitiesCsv' = liabilitiesCsv]_vars

\* C30: the read functions track the submission history.  getEpochCount is
\* the number of successful submitProof calls (one SolvencyProved event each)
\* and grows by one exactly in such a call; getLatestEpoch reverts exactly
\* when that number is 0 and otherwise returns the epoch id of the latest
\* successful submission; getProof of an epoch no successful submission
\* named is the empty record, with timestamp 0 and verified false.
C30_ReadsTrackSubmissions ==
    /\ [](/\ getEpochCount = Len(events)
          /\ getLatestEpoch = IF Len(events) = 0 THEN <<>>
                              ELSE <<events[Len(events)].epochId>>
          /\ \A e \in RegistryEpochs \cup {0} :
                 (\A i \in 1 .. Len(events) : events[i].epochId # e) =>
                     /\ getProof(e) = ZeroProof
                     /\ getProof(e).timestamp = 0
                     /\ ~getProof(e).verified)
    /\ [][getEpochCount' =
             IF lastTx'.fn = "submitProof" /\ lastTx'.status = "success"
                /\ events' # events
             THEN getEpochCount + 1 ELSE getEpochCount]_vars

\* Two epochs have been submitted, the later one being epoch 1, and the last
\* transaction was reverted.
C30_Witness ==
    /\ getEpochCount = 2
    /\ getLatestEpoch = <<1>>
    /\ epochIds[1] = 2
    /\ lastTx.fn = "submitProof"
    /\ lastTx.status = "reverted"

\* C28: the full workflow runs build, scan, prove and submit in that order,
\* each step only after the one before it has succeeded.  The lines pushed so
\* far are the prefix of the fixed list that the handler's position names; a
\* script acts only while the handler waits in its step, and the adapter
\* only after the prover of the same request has exited with success; the
\* handler moves to the next step only after a successful exit, and a request
\* ends with the success response only after a successful submission, else
\* with the error response.
C28_WorkflowInOrder ==
    /\ [](workflow.steps =
             CASE workflow.pc = "idle" -> <<>>
               [] workflow.pc = "build" -> SubSeq(WorkflowSteps, 1, 1)
               [] workflow.pc = "scan" -> SubSeq(WorkflowSteps, 1, 3)
               [] workflow.pc = "prove" -> SubSeq(WorkflowSteps, 1, 5)
               [] workflow.pc = "submit" -> SubSeq(WorkflowSteps, 1, 7))
    /\ [][/\ builder' # builder => workflow.pc = "build"
          /\ reservesFile' # reservesFile =>
                 workflow.pc = "scan" /\ builderOut = "ok"
          /\ prover' # prover => workflow.pc = "prove" /\ builderOut = "ok"
          /\ (adapter' # adapter \/ lastTx' # lastTx) =>
                 /\ workflow.pc = "submit"
                 /\ builderOut = "ok"
                 /\ lastProverOut.result = "ok"
          /\ workflow'.pc # workflow.pc =>
                 CASE workflow'.pc = "build" -> workflow.pc = "idle"
                   [] workflow'.pc = "scan" ->
                          workflow.pc = "build" /\ builderOut = "ok"
                   [] workflow'.pc = "prove" ->
                          workflow.pc = "scan" /\ Exists(reservesFile')
                   [] workflow'.pc = "submit" ->
                          workflow.pc = "prove" /\ lastProverOut.result = "ok"
                   [] workflow'.pc = "idle" ->
                          IF workflow.pc = "submit" /\ adapterOut.result = "submitted"
                          THEN workflowOut'.status = 200
                          ELSE workflowOut'.status = 500]_vars

\* A request has failed in its proof step, after an earlier request got as
\* far as the transaction.
C28_Witness ==
    /\ workflow.pc = "idle"
    /\ workflowOut.status = 500
    /\ lastProverOut.result \notin {"ok", "none"}
    /\ lastTx.fn = "submitProof"
    /\ lastTx.status = "reverted"

\* C31: only the owner replaces the verifier.  A setVerifier transaction of
\* the owner (the deployer) succeeds and leaves the verifier at the address
\* given; one of any other account is reverted and leaves the verifier as
\* it was; the verifier changes in no other way, and setVerifier changes
\* neither the stored proofs nor the epoch list.
C31_OnlyOwnerSetsVerifier ==
    [][/\ verifier' # verifier =>
              /\ lastTx'.fn = "setVerifier"
              /\ lastTx'.sender = owner
       /\ (lastTx' # lastTx /\ lastTx'.fn = "setVerifier") =>
              /\ proofs' = proofs
              /\ epochIds' = epochIds
              /\ IF lastTx'.sender = owner
                 THEN /\ lastTx'.status = "success"
                      /\ verifier' = lastTx'.newVerifier
                 ELSE /\ lastTx'.status = "reverted"
                      /\ verifier' = verifier]_vars

\* With a proof stored, the owner has installed the Groth16 verifier and
\* another account's attempt to replace it has been reverted.
C31_Witness ==
    /\ verifier = "Groth16Verifier"
    /\ getEpochCount >= 1
    /\ lastTx.fn = "setVerifier"
    /\ lastTx.sender = "other"
    /\ lastTx.newVerifier = "MockVerifier"
    /\ lastTx.status = "reverted"

\* C32: for every built tree of n leaves and every leaf index, the path of
\* generateProof has length ceil(log2(n)) minus the number of layers at which
\* the running node is the unpaired last node, and its k-th digest is the
\* sibling at the k-th layer, counted from the leaves, at which the running
\* node has one.
C32_PathLengthAndOrder ==
    builder.tree # NoTree =>
        LET t == builder.tree[1]
            n == Len(t.leaves)
            height == CHOOSE h \in 0 .. n : Pow2(h) >= n /\ (h = 0 \/ Pow2(h - 1) < n)
            width(L) == (n + Pow2(L) - 1) \div Pow2(L)
        IN  \A idx \in 0 .. n - 1 :
                LET at(L) == idx \div Pow2(L)
                    promoted == {L \in 0 .. height - 1 :
                                    at(L) = width(L) - 1 /\ width(L) % 2 = 1}
                    paired == (0 .. height - 1) \ promoted
                    sibling(L) == IF at(L) % 2 = 1 THEN at(L) - 1 ELSE at(L) + 1
                    proof == generateProof(t, idx)
                IN  /\ Len(proof) = height - Cardinality(promoted)
                    /\ \A L \in paired :
                           proof[Cardinality({M \in paired : M < L}) + 1]
                               = t.layers[L + 1][sibling(L) + 1]

\* A built tree of three leaves: the path of the last leaf skips the layer at
\* which it is promoted, the path of the first has both siblings.
C32_Witness ==
    /\ builder.tree # NoTree
    /\ Len(builder.tree[1].leaves) = 3
    /\ Len(builder.tree[1].layers) = 3
    /\ generateProof(builder.tree[1], 2) = <<builder.tree[1].layers[2][1]>>
    /\ generateProof(builder.tree[1], 0) =
           <<builder.tree[1].layers[1][2], builder.tree[1].layers[2][2]>>

\* C34: the leaf pre-image is injective.  Two distinct (identifier, balance)
\* records are never packed to the same bytes.
C34_PreimageInjective ==
    (packed.bytes # <<>> /\ packed.pairs[1] # packed.pairs[2]) =>
        packed.bytes[1] # packed.bytes[2]

\* Two records whose bytes would coincide without the fixed width: the
\* identifier <<1>> with balance 1, and the empty identifier with balance 5.
C34_Witness ==
    /\ packed.pairs = <<[userId |-> <<1>>, balance |-> 1],
                        [userId |-> <<>>, balance |-> 5]>>
    /\ packed.bytes = <<<<1, 0, 1>>, <<1, 1>>>>

\* C33: the structure of a built tree.  For the n >= 1 records of the CSV,
\* layers[0] is the n leaf hashes in CSV order and leaf i carries index i;
\* every further layer has ceil(previous length / 2) entries, entry k being
\* the hash of the sorted pair of entries 2k and 2k+1 of the layer below, or
\* the unpaired last entry itself; the last layer is the root alone.
C33_TreeStructure ==
    builder.tree # NoTree =>
        LET t == builder.tree[1]
            rows == Content(liabilitiesCsv)
            n == Len(rows)
            top == Len(t.layers)
        IN  /\ n >= 1
            /\ Len(t.leaves) = n
            /\ Len(t.layers[1]) = n
            /\ \A i \in 1 .. n :
                   /\ t.leaves[i].index = i - 1
                   /\ t.leaves[i].hash =
                          hashLeaf(rows[i].user_id, BigInt(rows[i].balance)[1])
                   /\ t.layers[1][i] = t.leaves[i].hash
            /\ \A L \in 1 .. top - 1 :
                   LET below == t.layers[L]
                       above == t.layers[L + 1]
                   IN  /\ Len(below) > 1
                       /\ Len(above) = (Len(below) + 1) \div 2
                       /\ \A k \in 1 .. Len(above) :
                              above[k] =
                                  IF 2 * k > Len(below) THEN below[2 * k - 1]
                                  ELSE IF HexLess(below[2 * k - 1], below[2 * k])
                                       THEN keccakPair(below[2 * k - 1], below[2 * k])
                                       ELSE keccakPair(below[2 * k], below[2 * k - 1])
            /\ Len(t.layers[top]) = 1
            /\ t.root = t.layers[top][1]

\* A tree of five leaves: layers of 5, 3, 2 and 1 entries, the fifth leaf
\* copied unchanged twice.
C33_Witness ==
    /\ builder.tree # NoTree
    /\ [L \in 1 .. Len(builder.tree[1].layers) |-> Len(builder.tree[1].layers[L])]
           = <<5, 3, 2, 1>>
    /\ builder.tree[1].layers[2][3] = builder.tree[1].layers[1][5]
    /\ builder.tree[1].layers[3][2] = builder.tree[1].layers[1][5]
    /\ builder.tree[1].root = builder.tree[1].layers[4][1]

\* C38: the result of verifyProof does not depend on leafIndex.  For every
\* leaf hash of a built tree with its own path or the path of the next leaf,
\* against the root or another digest,
\* verifyProof gives one answer for every index; and a proof file with its
\* index altered gets the outcome the file itself gets.
C38_IndexIgnored ==
    /\ builder.tree # NoTree =>
           LET t == builder.tree[1]
           IN  \A i \in 1 .. Len(t.leaves) : \A j \in {i, (i % Len(t.leaves)) + 1} :
                   \A root \in {t.root, t.leaves[1].hash} :
                       \A leafIndex \in -1 .. MaxRecords :
                           verifyProof(t.leaves[i].hash, generateProof(t, j - 1),
                                       root, leafIndex)
                               = verifyProof(t.leaves[i].hash, generateProof(t, j - 1),
                                             root, t.leaves[i].index)
    /\ \A u \in Users :
           Exists(inclusionFiles[u]) =>
               \A leafIndex \in -1 .. MaxRecords :
                   InclusionCheck([Content(inclusionFiles[u]) EXCEPT !.index = leafIndex])
                       = InclusionCheck(Content(inclusionFiles[u]))

\* bob's proof file, for the second of two or more leaves, has been verified;
\* with index 0 or an index beyond the tree it is verified as well.
C38_Witness ==
    /\ Exists(inclusionFiles["bob"])
    /\ Content(inclusionFiles["bob"]).index = 1
    /\ verifyOut = [userId |-> "bob", tamper |-> "none", base |-> "none",
                    result |-> "verified"]
    /\ InclusionCheck([Content(inclusionFiles["bob"]) EXCEPT !.index = 0]) = "verified"
    /\ InclusionCheck([Content(inclusionFiles["bob"]) EXCEPT !.index = MaxRecords])
           = "verified"

\* C35: updateAllocations is all-or-nothing.  A call for a session that does
\* not exist or is not open, or with an update that names anyone who is not
\* a participant, fails; and a call that fails leaves every stored session
\* and every history as it was.
C35_UpdateAllOrNothing ==
    [][((lastYellow' # lastYellow \/ sessions' # sessions)
           /\ lastYellow'.op = "updateAllocations") =>
          LET id == lastYellow'.sessionId
              U == lastYellow'.arg
              refused ==
                  \/ ~Exists(sessions[id])
                  \/ Content(sessions[id]).status # "open"
                  \/ \E k \in Keys(U) :
                         \A i \in 1 .. Len(Content(sessions[id]).participants) :
                             Content(sessions[id]).participants[i] # k
          IN  /\ refused => lastYellow'.result # "ok"
              /\ lastYellow'.result # "ok" =>
                     sessions' = sessions /\ history' = history]_vars

\* An open session at nonce 1 or more has refused an update that names alice,
\* a participant, together with carol, who is none.
C35_Witness ==
    \E id \in SessionIds :
        /\ Exists(sessions[id])
        /\ Content(sessions[id]).status = "open"
        /\ Content(sessions[id]).nonce >= 1
        /\ Len(history[id]) = Content(sessions[id]).nonce + 1
        /\ lastYellow.op = "updateAllocations"
        /\ Keys(lastYellow.arg) = {"alice", "carol"}
        /\ lastYellow.result = "Unknown participant"

\* Claim C36: calls of updateAllocations and closeSession that overlap in
\* their await lose nothing.  In every state the stored nonce of a session is
\* the number of changes in its history, the nonces of the history are
\* pairwise distinct, and a session whose history holds a closed state is
\* stored as closed; and an update that completes stores its own values
\* for the keys it names and, for every other key, the value that was stored
\* just before it completed.
C36_NoLostUpdate ==
    /\ [](\A id \in SessionIds :
              Exists(sessions[id]) =>
                  /\ Content(sessions[id]).nonce = Len(history[id]) - 1
                  /\ \A a, b \in 1 .. Len(history[id]) :
                         a # b => history[id][a].nonce # history[id][b].nonce
                  /\ (\E a \in 1 .. Len(history[id]) :
                          history[id][a].status = "closed") =>
                         Content(sessions[id]).status = "closed")
    /\ [][(Len(calls') < Len(calls) /\ lastYellow'.op = "updateAllocations") =>
              LET id == lastYellow'.sessionId
                  U == lastYellow'.arg
                  before == Content(sessions[id]).allocations
                  after == Content(sessions'[id]).allocations
              IN  \A k \in Keys(before) \cup Keys(U) :
                      Get(after, k) = IF k \in Keys(U) THEN Get(U, k)
                                      ELSE Get(before, k)]_vars

\* Claim C37: the liabilitiesRoot argument the adapter has prepared is the
\* liabilitiesRoot public signal of the proof it has loaded, whatever builder,
\* scanner and prover runs preceded the load.  The argument is taken as the
\* field element the verifier compares, so that a root at or above the field
\* prime is not counted as a difference.
C37_RootArgumentIsProofSignal ==
    adapter.pc = "loaded" =>
        adapter.liabilitiesRoot % FieldPrime = adapter.pubSignals[2]

\* Claim C39: every request of YellowClient.send settles exactly once and
\* eventually.  In every state no request has two settlements, the pending
\* requests are the sent ones without a settlement and each still has its
\* timer, the ids sent are pairwise distinct, an inbound message with the id
\* of a pending request settles it by its error or result and removes it,
\* and any other inbound message changes nothing.  In every step a timer of
\* a request that is not pending settles nothing, and while the socket is
\* not open no request is registered, no id is used and nothing is sent.
\* Every pending request is settled at last.
C39_SettlesExactlyOnce ==
    /\ [](/\ \A id \in RequestIds :
                 Cardinality({i \in 1 .. Len(client.settled) :
                                  client.settled[i].id = id}) <= 1
          /\ client.pendingRequests =
                 {client.outbound[i] : i \in 1 .. Len(client.outbound)}
                     \ {client.settled[i].id : i \in 1 .. Len(client.settled)}
          /\ client.pendingRequests \subseteq client.timers
          /\ \A a, b \in 1 .. Len(client.outbound) :
                 a # b => client.outbound[a] # client.outbound[b]
          /\ \A data \in InboundMessages :
                 IF data.id # <<>> /\ data.id[1][1] = "string"
                        /\ data.id[1][2] \in client.pendingRequests
                 THEN handleMessage(client, data) =
                          [client EXCEPT
                               !.pendingRequests = @ \ {data.id[1][2]},
                               !.settled = Append(@,
                                   [id |-> data.id[1][2],
                                    by |-> IF data.error THEN "reject"
                                           ELSE "resolve"])]
                 ELSE handleMessage(client, data) = client)
    /\ [][/\ \A id \in client.timers \ client.pendingRequests :
                 id \notin client'.timers => client'.settled = client.settled
          /\ client.ws # "open" =>
                 /\ client'.pendingRequests \subseteq client.pendingRequests
                 /\ client'.messageId = client.messageId
                 /\ client'.outbound = client.outbound
                 /\ Len(client'.settled) > Len(client.settled) =>
                        \/ client'.settled[Len(client'.settled)].by = "notConnected"
                        \/ client'.settled[Len(client'.settled)].by = "timeout"]_vars
    /\ \A id \in RequestIds :
           (id \in client.pendingRequests) ~>
               (\E i \in 1 .. Len(client.settled) : client.settled[i].id = id)

\* Request 1 was resolved by its response and request 2 rejected by its timer
\* after the socket had closed; both timers have fired.
C39_Witness ==
    /\ client.settled = <<[id |-> toString(1), by |-> "resolve"],
                          [id |-> toString(2), by |-> "timeout"]>>
    /\ client.ws = "closed"
    /\ client.timers = {}
    /\ client.pendingRequests = {}

====
